---------------------------- MODULE Spec2Model ----------------------------
(***************************************************************************)
(* A model of the ISSP programmer of src/issp.py (MicroPython, PyBoard),   *)
(* of the vector compiler of src/issp_parser.py and of the hex file       *)
(* converter of src/intelhex.py.                                           *)
(*                                                                         *)
(* The specifications, each at the level its functions need:              *)
(*                                                                         *)
(*   Spec       the REPL session: the user calls the module's functions   *)
(*              one after the other; one step is one statement of the     *)
(*              running function (a call of a protocol operation), played *)
(*              against a target whose flash, SRAM and bank register      *)
(*              behave as the docstrings of issp.py describe.             *)
(*                                                                         *)
(*   FlashSpec  the same steps for program(), verify() and patch() alone, *)
(*              from each of a set of flash contents and images.          *)
(*                                                                         *)
(*   WireSpec   the three GPIO lines during wait_and_poll(): one step is  *)
(*              one pin access of the main flow, one timer callback, or   *)
(*              one move of the target on the data line.                  *)
(*                                                                         *)
(*   VectorSpec generate_bytes() and _write_vector(): one step is one     *)
(*              pass of the interpreter's loop.                            *)
(*                                                                         *)
(*   BitSpec    _write_op() and _read_op(), one pin access per step.      *)
(*                                                                         *)
(*   MagicSpec  reset_send_magic() and power_cycle_send_magic(), one pin  *)
(*              access per step.                                           *)
(*                                                                         *)
(*   HexSpec    read_hex_file(), one line of the file per step.           *)
(*                                                                         *)
(*   RoundTripSpec  the steps of FlashSpec for program(image) and the     *)
(*              verify(image) that follows its return.                     *)
(*                                                                         *)
(*   PulseSpec  write_noop(), _write_op() and _read_op() called on their  *)
(*              own, and _write_vector() with each command it dispatches  *)
(*              run at the pins, one pin access per step.                  *)
(*                                                                         *)
(*   EmbeddedSpec  _write_vector() on the vectors of the file and on the  *)
(*              bytecodes of VectorSpec.                                   *)
(***************************************************************************)
EXTENDS Integers, Sequences, FiniteSets, TLC

(***************************************************************************)
(* Program constants (src/issp.py).                                        *)
(***************************************************************************)
BYTE_PER_BLOCK == 64

(* Address of the first byte of the target's 64-byte block buffer: the    *)
(* literal 0b10000000 of program(), verify() and patch().                 *)
BUFFER_BASE == 128

(* Address of the target's return code, the literal 0xf8 of patch().      *)
STATUS_ADDR == 248

(* Address of the block number, the literal 0xFA of set_block_num().      *)
BLOCK_ADDR == 250

(* Addresses of the silicon ID, the literals 0xF8 and 0xF9 of             *)
(* read_id_word().                                                         *)
ID_HIGH_ADDR == 248

ID_LOW_ADDR == 249

(***************************************************************************)
(* Bounds of the model.  The source has _BLOCK_PER_BANK = const(128); the *)
(* model walks banks of BLOCK_PER_BANK blocks, so that a bank is          *)
(* BYTE_PER_BLOCK * BLOCK_PER_BANK bytes here and 8192 bytes in the       *)
(* source.  NumBanks is the number of flash banks of the target.          *)
(***************************************************************************)
BLOCK_PER_BANK == 6

NumBanks == 2

(* The number of calls the user makes in one session. *)
MaxCalls == 2

(* The number of times the target answers with a fault in one session. *)
MaxFaults == 1

(* The number of program / verify / patch calls in a session that starts  *)
(* from any of the flash contents of FlashInits.                           *)
MaxFlashCalls == 1

(* The silicon ID of the target the model programs, high byte then low.   *)
SiliconId == <<0, 44>>

BankBytes == BYTE_PER_BLOCK * BLOCK_PER_BANK

FlashSize == NumBanks * BankBytes

Byte == 0..255

VARIABLES
    (* configuration and the running call *)
    is_5v,      \* the module's voltage flag
    call,       \* the function the REPL is running, "none" between calls
    pc,         \* the statement of it that runs next
    data,       \* the argument of program / verify / patch
    i_bank,     \* loop variables of program / verify / patch
    i_block,
    i_byte,
    i,
    result,     \* how the last call ended
    out,        \* the block markers the running call has printed
    ncalls,     \* calls made so far
    nfaults,    \* faults the target has answered with so far
    (* the target *)
    flash,      \* flash contents, byte by byte, bank after bank
    mem,        \* the target's SRAM, as read_memory / write_memory see it
    bankSel,    \* the active flash bank
    (* history of the session *)
    flash0,     \* the flash contents when the running (or last) call started
    ready,      \* the most recent handshake ran to the end of Init-Vector-3
    hsTrace,    \* the steps of the most recent handshake
    opCount,    \* protocol operations the running (or last) call has issued
    lastOp,     \* the most recent of them
    prevOp,     \* the one before
    eraseLog,   \* blocks the target erased during the call, in order
    progLog,    \* blocks the target programmed during the call, in order
    bufWrites,  \* write-memory operations to the block buffer during the call
    unreadyOps, \* flash operations issued while not ready, whole session
    (* the GPIO lines and the timer during wait_and_poll() *)
    sdata_mode, \* the mode of the sdata pin: "IN" or "OUT"
    sdata_out,  \* the output value of the sdata pin
    sclk,       \* the level of the clock line
    tstate,     \* the target: "idle", "busy" (holds data high) or "done"
    timer_cb,   \* the callback the timer runs next: "on", "off" or "none"
    wpc,        \* the statement of wait_and_poll() that runs next
    cycles,     \* the argument of _drive_clock(), counted down
    waited,     \* time machine.time_pulse_us() has waited for the edge
    (* history of wait_and_poll() *)
    wlog,       \* what the main flow has done, in order
    mainPulses, \* clock pulses _drive_clock() has issued
    trailPulses,\* whole pulses on the clock line since data is output again
    trailRise,  \* the clock line went high after data became output again
    lateCb,     \* a timer callback ran after data became output again
    (* _write_vector() *)
    vector,     \* the commands the bytecode was generated from, if it was
    compiled,   \* the bytecode is generate_bytes() of vector
    ops,        \* the argument of _write_vector(): the bytecode
    vec_i,      \* its index i
    vpc,        \* where _write_vector() is
    dispatched, \* the calls it has made, in order
    (* the bit serializer and the magic bits, pin access by pin access *)
    bfn,        \* the function that runs: "_write_op", "_read_op", ...
    bpc,        \* where it is: <<phase, statement>>
    issp_op,    \* its arguments
    address,
    value,
    bit_i,      \* its loop variable i
    read_value, \* the byte _read_op() assembles
    tline,      \* the level the target presents on the data line
    sclk_mode,  \* the mode of the sclk pin
    xres_mode,  \* the mode of the xres pin
    xres,       \* the output value of the xres pin
    power,      \* power_enable is on
    blog,       \* the pin accesses of the function, in order
    clocked,    \* the level the data pin drives at each rising clock edge
    (* read_hex_file() of src/intelhex.py, on the computer *)
    hexfile,    \* its argument: the file, as the description of its lines
    hex_n,      \* lines the loop has read
    hpc,        \* where read_hex_file() is
    blocks,     \* its locals
    security,
    device_checksum,
    extended_address,
    next_block_num,
    num_banks,
    hex_error   \* the message of the ValueError it raised

callVars == <<call, pc, data, i_bank, i_block, i_byte, i, result, out, ncalls>>

tgtVars == <<flash, mem, bankSel, nfaults>>

histVars == <<flash0, ready, hsTrace, opCount, lastOp, prevOp, eraseLog, progLog,
              bufWrites, unreadyOps>>

sessionVars == <<is_5v, callVars, tgtVars, histVars>>

pinVars == <<sdata_mode, sdata_out, sclk, tstate, timer_cb, wpc, cycles, waited>>

wireVars == <<pinVars, wlog, mainPulses, trailPulses, trailRise, lateCb>>

vecVars == <<vector, compiled, ops, vec_i, vpc, dispatched>>

bitVars == <<bfn, bpc, issp_op, address, value, bit_i, read_value, tline,
             sclk_mode, xres_mode, xres, power, blog, clocked>>

hexVars == <<hexfile, hex_n, hpc, blocks, security, device_checksum,
             extended_address, next_block_num, num_banks, hex_error>>

(* what of the lines' state belongs to wait_and_poll() alone *)
waitVars == <<tstate, timer_cb, wpc, cycles, waited, wlog, mainPulses,
              trailPulses, trailRise, lateCb>>

(***************************************************************************)
(* Images.  An image is a byte string; the model names it by its length   *)
(* and the pattern its bytes follow, and data[k] is DataAt(data, k).      *)
(***************************************************************************)
PatA(k) == (7 * k + 3) % 256

(* PatA but for the last byte of bank 0 block 0 *)
PatB(k) == IF k = BYTE_PER_BLOCK - 1 THEN (PatA(k) + 1) % 256 ELSE PatA(k)

(* PatA but for one byte in bank 0 block 2 and the first byte of the last *)
(* block of bank 1                                                        *)
PatD(k) == IF k = 2 * BYTE_PER_BLOCK + 17 \/ k = FlashSize - BYTE_PER_BLOCK
           THEN (PatA(k) + 128) % 256 ELSE PatA(k)

(* a pattern unlike PatA in every block *)
PatG(k) == (13 * k + 5) % 256

PatZ(k) == 0

Pattern(p, k) ==
    CASE p = "A" -> PatA(k)
      [] p = "B" -> PatB(k)
      [] p = "D" -> PatD(k)
      [] p = "G" -> PatG(k)
      [] OTHER   -> PatZ(k)

DataAt(d, k) == Pattern(d.pat, k)

DataLen(d) == d.len

ValidImages ==
    {[len |-> NumBanks * BankBytes, pat |-> p] : p \in {"A", "B", "D"}}
    \cup {[len |-> BankBytes, pat |-> "A"], [len |-> 0, pat |-> "A"]}

InvalidImages ==
    {[len |-> n, pat |-> "A"] :
        n \in {1, BYTE_PER_BLOCK, BankBytes - 1, BankBytes + 1}}

Images == ValidImages \cup InvalidImages

NoData == [len |-> 0, pat |-> "Z"]

(***************************************************************************)
(* Program constants (src/intelhex.py).                                    *)
(***************************************************************************)
BLOCK_PROGRAM_DATA == 0

BLOCK_EOF == 1

BLOCK_EXTENDED_LINEAR_ADDR == 4

EXTENDED_ADDRESS_SECURITY == 16

EXTENDED_ADDRESS_CHECKSUM == 32

BLOCKS_PER_BANK == 128

(* num_banks = None, before the first record behind an extended address *)
None == -1

(* A hex file is described by the number of flash banks it was built for  *)
(* and by what is wrong or unusual in it, see HexFaults.                   *)
NoFile == [banks |-> 0, fault |-> "none"]

TotalBanks(d) == DataLen(d) \div BankBytes

(***************************************************************************)
(* Bitwise or of two naturals, as Python's a | b.                          *)
(***************************************************************************)
RECURSIVE BitOr(_, _)
BitOr(a, b) ==
    IF a = 0 THEN b
    ELSE IF b = 0 THEN a
    ELSE (IF a % 2 = 1 \/ b % 2 = 1 THEN 1 ELSE 0) + 2 * BitOr(a \div 2, b \div 2)

BufferAddr(j) == BitOr(BUFFER_BASE, j)

(***************************************************************************)
(* How a call ends, and the protocol operations it issues.                 *)
(***************************************************************************)
Res(kind, stage, bank, block, byte, code) ==
    [fn |-> "", kind |-> kind, stage |-> stage, bank |-> bank, block |-> block,
     byte |-> byte, code |-> code]

NoResult == Res("none", "", -1, -1, -1, -1)

Running == Res("running", "", -1, -1, -1, -1)

Ok == Res("ok", "", -1, -1, -1, -1)

(* assert remainder == 0, the failure the design calls InvalidImageSize *)
InvalidImageSize == Res("InvalidImageSize", "", -1, -1, -1, -1)

(* RuntimeError('Timed out waiting for SDATA to go high' / 'to go low') *)
SyncTimeout(phase) == Res("SyncTimeout", phase, -1, -1, -1, -1)

(* RuntimeError('Verify failed at bank {} block {} byte {}') *)
VerifyMismatch(bank, block, byte) ==
    Res("VerifyMismatch", "", bank, block, byte, -1)

(* RuntimeError('Reading / Erasing / Programming flash failed at ...') *)
ProtocolFault(stage, bank, block, code) ==
    Res("ProtocolFault", stage, bank, block, -1, code)

Op(name, a, v) == [op |-> name, a |-> a, v |-> v]

NoOp == Op("none", -1, -1)

(* the operations that send a vector and then wait and poll *)
VectorOps == {"bulk_erase", "program_block", "verify_setup", "erase_block",
              "id_setup"}

(***************************************************************************)
(* The target.  Its answer to a vector followed by wait_and_poll() is the *)
(* outcome of the pulse measurement ("ok", or no rising edge, or no       *)
(* falling edge within the timeout) and the return code it leaves at      *)
(* STATUS_ADDR.                                                            *)
(***************************************************************************)
Outcome(w, rc) == [wait |-> w, rc |-> rc]

Outcomes ==
    {Outcome("ok", 0)}
    \cup (IF nfaults < MaxFaults
          THEN {Outcome("ok", 1), Outcome("rise", 0), Outcome("fall", 0)}
          ELSE {})

Done(o) == o.wait = "ok" /\ o.rc = 0

(* the block the target's bank register and block number select *)
TgtBlock == bankSel * BLOCK_PER_BANK + mem[BLOCK_ADDR]

TgtBlockValid == bankSel < NumBanks /\ mem[BLOCK_ADDR] < BLOCK_PER_BANK

InBlock(k, blk) ==
    k >= blk * BYTE_PER_BLOCK /\ k < (blk + 1) * BYTE_PER_BLOCK

InBuffer(a) == a >= BUFFER_BASE /\ a < BUFFER_BASE + BYTE_PER_BLOCK

(* bulk_erase: "erases all flash memory contents" *)
FlashErased == [k \in 0..(FlashSize - 1) |-> 0]

(* erase_block: "erase one flash block" *)
FlashBlockErased ==
    IF TgtBlockValid
    THEN [k \in 0..(FlashSize - 1) |->
            IF InBlock(k, TgtBlock) THEN 0 ELSE flash[k]]
    ELSE flash

(* program_block: "program one block of flash from memory" *)
FlashBlockProgrammed ==
    IF TgtBlockValid
    THEN [k \in 0..(FlashSize - 1) |->
            IF InBlock(k, TgtBlock)
            THEN mem[BUFFER_BASE + (k - TgtBlock * BYTE_PER_BLOCK)]
            ELSE flash[k]]
    ELSE flash

(* verify_setup: "read one block of flash into memory" *)
MemBlockRead ==
    IF TgtBlockValid
    THEN [a \in 0..255 |->
            IF InBuffer(a)
            THEN flash[TgtBlock * BYTE_PER_BLOCK + (a - BUFFER_BASE)]
            ELSE mem[a]]
    ELSE mem

(* the ID-setup vector leaves the silicon ID at 0xF8 and 0xF9, where      *)
(* read_id_word() reads it                                                 *)
MemIdRead == [mem EXCEPT ![ID_HIGH_ADDR] = SiliconId[1], ![ID_LOW_ADDR] = SiliconId[2]]

Log(fresh, s) == IF fresh THEN <<>> ELSE s

(* The target executes vector vec with outcome o.  fresh: the operation   *)
(* is the first of a call, so the call's logs start anew.                 *)
Target(fresh, vec, o) ==
    /\ nfaults' = IF Done(o) THEN nfaults ELSE nfaults + 1
    /\ bankSel' = bankSel
    /\ flash' = IF ~Done(o) THEN flash
                ELSE CASE vec = "bulk_erase"    -> FlashErased
                       [] vec = "erase_block"   -> FlashBlockErased
                       [] vec = "program_block" -> FlashBlockProgrammed
                       [] OTHER                 -> flash
    /\ mem' = IF o.wait # "ok" THEN mem
              ELSE IF ~Done(o) THEN [mem EXCEPT ![STATUS_ADDR] = o.rc]
              ELSE CASE vec = "verify_setup" -> [MemBlockRead EXCEPT ![STATUS_ADDR] = 0]
                     [] vec = "id_setup"     -> MemIdRead
                     [] OTHER                -> [mem EXCEPT ![STATUS_ADDR] = 0]
    /\ eraseLog' = IF Done(o) /\ vec = "erase_block" /\ TgtBlockValid
                   THEN Append(Log(fresh, eraseLog), TgtBlock)
                   ELSE Log(fresh, eraseLog)
    /\ progLog' = IF Done(o) /\ vec = "program_block" /\ TgtBlockValid
                  THEN Append(Log(fresh, progLog), TgtBlock)
                  ELSE Log(fresh, progLog)

(* write_memory(a, v) and set_block_num as the target sees them *)
TargetWriteMem(fresh, a, v) ==
    /\ mem' = [mem EXCEPT ![a] = v]
    /\ UNCHANGED <<flash, bankSel, nfaults>>
    /\ eraseLog' = Log(fresh, eraseLog)
    /\ progLog' = Log(fresh, progLog)

(* set_bank_num(bank) as the target sees it *)
TargetSetBank(fresh, bank) ==
    /\ bankSel' = bank
    /\ UNCHANGED <<flash, mem, nfaults>>
    /\ eraseLog' = Log(fresh, eraseLog)
    /\ progLog' = Log(fresh, progLog)

TargetIdle(fresh) ==
    /\ UNCHANGED <<flash, mem, bankSel, nfaults>>
    /\ eraseLog' = Log(fresh, eraseLog)
    /\ progLog' = Log(fresh, progLog)

(***************************************************************************)
(* The history of the call: one more protocol operation is issued.        *)
(***************************************************************************)
Emit(fresh, op) ==
    /\ opCount' = (IF fresh THEN 0 ELSE opCount) + 1
    /\ prevOp' = IF fresh THEN NoOp ELSE lastOp
    /\ lastOp' = op
    /\ bufWrites' = (IF fresh THEN 0 ELSE bufWrites)
                    + (IF op.op = "write_memory" /\ InBuffer(op.a) THEN 1 ELSE 0)
    /\ unreadyOps' = (unreadyOps \/ ~ready)
    /\ flash0' = IF fresh THEN flash ELSE flash0
    /\ UNCHANGED <<ready, hsTrace>>

(* a call starts and has issued nothing yet *)
EmitNothing(fresh) ==
    /\ opCount' = IF fresh THEN 0 ELSE opCount
    /\ prevOp' = IF fresh THEN NoOp ELSE prevOp
    /\ lastOp' = IF fresh THEN NoOp ELSE lastOp
    /\ bufWrites' = IF fresh THEN 0 ELSE bufWrites
    /\ flash0' = IF fresh THEN flash ELSE flash0
    /\ UNCHANGED <<unreadyOps, ready, hsTrace>>

(***************************************************************************)
(* Control: the running call goes on at statement p, returns, or raises.  *)
(***************************************************************************)
Locals(b, k, j, n) ==
    /\ i_bank' = b
    /\ i_block' = k
    /\ i_byte' = j
    /\ i' = n
    /\ UNCHANGED <<wireVars, vecVars, bitVars, hexVars>>

Continue(p, b, k, j, n) ==
    /\ pc' = p
    /\ Locals(b, k, j, n)
    /\ UNCHANGED <<call, data, result, ncalls, is_5v>>

(* the call ends: it returns (Ok) or raises; data keeps its argument *)
Return(res) ==
    /\ call' = "none"
    /\ pc' = ""
    /\ data' = data
    /\ result' = [res EXCEPT !.fn = call]
    /\ Locals(0, 0, 0, 0)
    /\ UNCHANGED <<ncalls, is_5v>>

(* the user types a call of f with argument d *)
Enter(f, p, d) ==
    /\ call' = f
    /\ pc' = p
    /\ data' = d
    /\ result' = Running
    /\ ncalls' = ncalls + 1
    /\ out' = <<>>
    /\ Locals(0, 0, 0, 0)
    /\ UNCHANGED is_5v

(* a call of f with argument d that ends within the step that starts it *)
EnterReturn(f, d, res) ==
    /\ call' = "none"
    /\ pc' = ""
    /\ data' = d
    /\ result' = [res EXCEPT !.fn = f]
    /\ ncalls' = ncalls + 1
    /\ out' = <<>>
    /\ Locals(0, 0, 0, 0)
    /\ UNCHANGED is_5v

Idle(n) == call = "none" /\ ncalls < n

AfterWait(o, p, b, k, j, n) ==
    IF o.wait = "ok" THEN Continue(p, b, k, j, n) ELSE Return(SyncTimeout(o.wait))

(***************************************************************************)
(* program(data), src/issp.py lines 514-539.                               *)
(***************************************************************************)
(* program_call without the size check *)
program_call_unchecked(S, n) ==
    /\ Idle(n)
    /\ \E d \in S :
        /\ Enter("program", "bulk_erase", d)
        /\ EmitNothing(TRUE)
        /\ TargetIdle(TRUE)

(* lines 522-524: the size check; a call that passes it goes on to        *)
(* bulk_erase()                                                            *)
program_call(S, n) ==
    /\ Idle(n)
    /\ \E d \in S :
        /\ IF DataLen(d) % BankBytes = 0
           THEN Enter("program", "bulk_erase", d)
           ELSE EnterReturn("program", d, InvalidImageSize)
        /\ EmitNothing(TRUE)
        /\ TargetIdle(TRUE)

(* lines 525-526: bulk_erase(); i = 0 *)
program_bulk_erase ==
    /\ call = "program" /\ pc = "bulk_erase"
    /\ \E o \in Outcomes :
        /\ Target(FALSE, "bulk_erase", o)
        /\ Emit(FALSE, Op("bulk_erase", -1, -1))
        /\ AfterWait(o, "bank", 0, 0, 0, 0)
    /\ UNCHANGED out

(* program_set_bank that selects bank 0 for every bank of the image *)
program_set_bank_zero ==
    /\ call = "program" /\ pc = "bank"
    /\ i_bank < TotalBanks(data)
    /\ TargetSetBank(FALSE, 0)
    /\ Emit(FALSE, Op("set_bank_num", -1, 0))
    /\ Continue("write", i_bank, 0, 0, i)
    /\ UNCHANGED out

(* lines 527-529: the next bank, set_bank_num(i_bank) *)
program_set_bank ==
    /\ call = "program" /\ pc = "bank"
    /\ i_bank < TotalBanks(data)
    /\ TargetSetBank(FALSE, i_bank)
    /\ Emit(FALSE, Op("set_bank_num", -1, i_bank))
    /\ Continue("write", i_bank, 0, 0, i)
    /\ UNCHANGED out

(* program_write without the 0b10000000 of the buffer address *)
program_write_low_address ==
    /\ call = "program" /\ pc = "write"
    /\ i_byte < BYTE_PER_BLOCK
    /\ TargetWriteMem(FALSE, i_byte, DataAt(data, i))
    /\ Emit(FALSE, Op("write_memory", i_byte, DataAt(data, i)))
    /\ Continue(IF i_byte + 1 < BYTE_PER_BLOCK THEN "write" ELSE "set_block",
                i_bank, i_block, i_byte + 1, i + 1)
    /\ UNCHANGED out

(* lines 530-533: write_memory(0b10000000 | i_byte, data[i]); i += 1 *)
program_write ==
    /\ call = "program" /\ pc = "write"
    /\ i_byte < BYTE_PER_BLOCK
    /\ TargetWriteMem(FALSE, BufferAddr(i_byte), DataAt(data, i))
    /\ Emit(FALSE, Op("write_memory", BufferAddr(i_byte), DataAt(data, i)))
    /\ Continue(IF i_byte + 1 < BYTE_PER_BLOCK THEN "write" ELSE "set_block",
                i_bank, i_block, i_byte + 1, i + 1)
    /\ UNCHANGED out

(* line 534: set_block_num(i_block) *)
program_set_block ==
    /\ call = "program" /\ pc = "set_block"
    /\ TargetWriteMem(FALSE, BLOCK_ADDR, i_block)
    /\ Emit(FALSE, Op("set_block_num", BLOCK_ADDR, i_block))
    /\ Continue("program_block", i_bank, i_block, i_byte, i)
    /\ UNCHANGED out

(* lines 535-537: program_block(); print('+'); the next block or bank *)
program_program_block ==
    /\ call = "program" /\ pc = "program_block"
    /\ \E o \in Outcomes :
        /\ Target(FALSE, "program_block", o)
        /\ Emit(FALSE, Op("program_block", -1, -1))
        /\ IF i_block + 1 < BLOCK_PER_BANK
           THEN AfterWait(o, "write", i_bank, i_block + 1, 0, i)
           ELSE AfterWait(o, "bank", i_bank + 1, 0, 0, i)
        /\ out' = IF o.wait = "ok" THEN Append(out, "+") ELSE out

(* lines 538-539: the banks are done; assert i == len(data) *)
program_done ==
    /\ call = "program" /\ pc = "bank"
    /\ i_bank >= TotalBanks(data)
    /\ Return(IF i = DataLen(data) THEN Ok ELSE Res("AssertionError", "", -1, -1, -1, -1))
    /\ EmitNothing(FALSE)
    /\ TargetIdle(FALSE)
    /\ UNCHANGED out

(***************************************************************************)
(* verify(data), src/issp.py lines 548-574.                                *)
(***************************************************************************)
(* lines 557-560: the size check *)
verify_call(S, n) ==
    /\ Idle(n)
    /\ \E d \in S :
        /\ IF DataLen(d) % BankBytes = 0
           THEN Enter("verify", "bank", d)
           ELSE EnterReturn("verify", d, InvalidImageSize)
        /\ EmitNothing(TRUE)
        /\ TargetIdle(TRUE)

(* lines 561-563: the next bank, set_bank_num(i_bank) *)
verify_set_bank ==
    /\ call = "verify" /\ pc = "bank"
    /\ i_bank < TotalBanks(data)
    /\ TargetSetBank(FALSE, i_bank)
    /\ Emit(FALSE, Op("set_bank_num", -1, i_bank))
    /\ Continue("set_block", i_bank, 0, 0, i)
    /\ UNCHANGED out

(* lines 564-565: the next block, set_block_num(i_block) *)
verify_set_block ==
    /\ call = "verify" /\ pc = "set_block"
    /\ TargetWriteMem(FALSE, BLOCK_ADDR, i_block)
    /\ Emit(FALSE, Op("set_block_num", BLOCK_ADDR, i_block))
    /\ Continue("verify_setup", i_bank, i_block, 0, i)
    /\ UNCHANGED out

(* line 566: verify_setup() *)
verify_verify_setup ==
    /\ call = "verify" /\ pc = "verify_setup"
    /\ \E o \in Outcomes :
        /\ Target(FALSE, "verify_setup", o)
        /\ Emit(FALSE, Op("verify_setup", -1, -1))
        /\ AfterWait(o, "read", i_bank, i_block, 0, i)
    /\ UNCHANGED out

(* verify_read that compares with data[i_byte] instead of data[i] *)
verify_read_block_index ==
    /\ call = "verify" /\ pc = "read"
    /\ i_byte < BYTE_PER_BLOCK
    /\ TargetIdle(FALSE)
    /\ Emit(FALSE, Op("read_memory", BufferAddr(i_byte), mem[BufferAddr(i_byte)]))
    /\ IF DataAt(data, i_byte) # mem[BufferAddr(i_byte)]
       THEN /\ Return(VerifyMismatch(i_bank, i_block, i_byte))
            /\ UNCHANGED out
       ELSE IF i_byte + 1 < BYTE_PER_BLOCK
       THEN /\ Continue("read", i_bank, i_block, i_byte + 1, i + 1)
            /\ UNCHANGED out
       ELSE /\ out' = Append(out, "-")
            /\ IF i_block + 1 < BLOCK_PER_BANK
               THEN Continue("set_block", i_bank, i_block + 1, 0, i + 1)
               ELSE Continue("bank", i_bank + 1, 0, 0, i + 1)

(* verify_read that leaves the block at a byte that differs and goes on   *)
(* with the next block                                                     *)
verify_read_next_block ==
    /\ call = "verify" /\ pc = "read"
    /\ i_byte < BYTE_PER_BLOCK
    /\ TargetIdle(FALSE)
    /\ Emit(FALSE, Op("read_memory", BufferAddr(i_byte), mem[BufferAddr(i_byte)]))
    /\ IF DataAt(data, i) # mem[BufferAddr(i_byte)]
       THEN /\ UNCHANGED out
            /\ IF i_block + 1 < BLOCK_PER_BANK
               THEN Continue("set_block", i_bank, i_block + 1, 0,
                             i + BYTE_PER_BLOCK - i_byte)
               ELSE IF i_bank + 1 < TotalBanks(data)
               THEN Continue("bank", i_bank + 1, 0, 0,
                             i + BYTE_PER_BLOCK - i_byte)
               ELSE Return(VerifyMismatch(i_bank, i_block, i_byte))
       ELSE IF i_byte + 1 < BYTE_PER_BLOCK
       THEN /\ Continue("read", i_bank, i_block, i_byte + 1, i + 1)
            /\ UNCHANGED out
       ELSE /\ out' = Append(out, "-")
            /\ IF i_block + 1 < BLOCK_PER_BANK
               THEN Continue("set_block", i_bank, i_block + 1, 0, i + 1)
               ELSE Continue("bank", i_bank + 1, 0, 0, i + 1)

(* lines 567-572: one byte of the block is read and compared; a byte that *)
(* differs raises, the last byte of a block prints '-'                    *)
verify_read ==
    /\ call = "verify" /\ pc = "read"
    /\ i_byte < BYTE_PER_BLOCK
    /\ TargetIdle(FALSE)
    /\ Emit(FALSE, Op("read_memory", BufferAddr(i_byte), mem[BufferAddr(i_byte)]))
    /\ IF DataAt(data, i) # mem[BufferAddr(i_byte)]
       THEN /\ Return(VerifyMismatch(i_bank, i_block, i_byte))
            /\ UNCHANGED out
       ELSE IF i_byte + 1 < BYTE_PER_BLOCK
       THEN /\ Continue("read", i_bank, i_block, i_byte + 1, i + 1)
            /\ UNCHANGED out
       ELSE /\ out' = Append(out, "-")
            /\ IF i_block + 1 < BLOCK_PER_BANK
               THEN Continue("set_block", i_bank, i_block + 1, 0, i + 1)
               ELSE Continue("bank", i_bank + 1, 0, 0, i + 1)

(* lines 573-574: the banks are done; assert i == len(data) *)
verify_done ==
    /\ call = "verify" /\ pc = "bank"
    /\ i_bank >= TotalBanks(data)
    /\ Return(IF i = DataLen(data) THEN Ok ELSE Res("AssertionError", "", -1, -1, -1, -1))
    /\ EmitNothing(FALSE)
    /\ TargetIdle(FALSE)
    /\ UNCHANGED out

(***************************************************************************)
(* patch(data), src/issp.py lines 583-629.                                 *)
(***************************************************************************)
(* line 600 *)
BlockBegin == (i_bank * BLOCK_PER_BANK + i_block) * BYTE_PER_BLOCK

(* the for loops of patch move on to the next block, or to the next bank *)
patch_next_block ==
    IF i_block + 1 < BLOCK_PER_BANK
    THEN Continue("set_block", i_bank, i_block + 1, 0, i)
    ELSE Continue("bank", i_bank + 1, 0, 0, i)

(* return_code = read_memory(0xf8); a non-zero code raises *)
patch_status(stage, next, mark) ==
    /\ TargetIdle(FALSE)
    /\ Emit(FALSE, Op("read_memory", STATUS_ADDR, mem[STATUS_ADDR]))
    /\ IF mem[STATUS_ADDR] # 0
       THEN /\ Return(ProtocolFault(stage, i_bank, i_block, mem[STATUS_ADDR]))
            /\ UNCHANGED out
       ELSE IF mark
       THEN /\ out' = Append(out, "+")
            /\ patch_next_block
       ELSE /\ Continue(next, i_bank, i_block, 0, i)
            /\ UNCHANGED out

(* lines 593-595: the size check *)
patch_call(S, n) ==
    /\ Idle(n)
    /\ \E d \in S :
        /\ IF DataLen(d) % BankBytes = 0
           THEN Enter("patch", "bank", d)
           ELSE EnterReturn("patch", d, InvalidImageSize)
        /\ EmitNothing(TRUE)
        /\ TargetIdle(TRUE)

(* lines 596-598: the next bank, set_bank_num(i_bank) *)
patch_set_bank ==
    /\ call = "patch" /\ pc = "bank"
    /\ i_bank < TotalBanks(data)
    /\ TargetSetBank(FALSE, i_bank)
    /\ Emit(FALSE, Op("set_bank_num", -1, i_bank))
    /\ Continue("set_block", i_bank, 0, 0, i)
    /\ UNCHANGED out

(* lines 599-601: the next block, set_block_num(i_block) *)
patch_set_block ==
    /\ call = "patch" /\ pc = "set_block"
    /\ TargetWriteMem(FALSE, BLOCK_ADDR, i_block)
    /\ Emit(FALSE, Op("set_block_num", BLOCK_ADDR, i_block))
    /\ Continue("verify_setup", i_bank, i_block, 0, i)
    /\ UNCHANGED out

(* line 602: verify_setup() *)
patch_verify_setup ==
    /\ call = "patch" /\ pc = "verify_setup"
    /\ \E o \in Outcomes :
        /\ Target(FALSE, "verify_setup", o)
        /\ Emit(FALSE, Op("verify_setup", -1, -1))
        /\ AfterWait(o, "read_status", i_bank, i_block, 0, i)
    /\ UNCHANGED out

(* lines 603-606 *)
patch_read_status ==
    /\ call = "patch" /\ pc = "read_status"
    /\ patch_status("read", "compare", FALSE)

(* patch_compare that compares with data[i_byte], without block_begin *)
patch_compare_no_begin ==
    /\ call = "patch" /\ pc = "compare"
    /\ i_byte < BYTE_PER_BLOCK
    /\ TargetIdle(FALSE)
    /\ Emit(FALSE, Op("read_memory", BufferAddr(i_byte), mem[BufferAddr(i_byte)]))
    /\ IF DataAt(data, i_byte) # mem[BufferAddr(i_byte)]
       THEN /\ Continue("erase_set_block", i_bank, i_block, 0, i)
            /\ UNCHANGED out
       ELSE IF i_byte + 1 < BYTE_PER_BLOCK
       THEN /\ Continue("compare", i_bank, i_block, i_byte + 1, i)
            /\ UNCHANGED out
       ELSE /\ out' = Append(out, "-")
            /\ patch_next_block

(* lines 607-612: one byte of the block is read and compared; a byte that *)
(* differs breaks out of the loop, a block without one prints '-'         *)
patch_compare ==
    /\ call = "patch" /\ pc = "compare"
    /\ i_byte < BYTE_PER_BLOCK
    /\ TargetIdle(FALSE)
    /\ Emit(FALSE, Op("read_memory", BufferAddr(i_byte), mem[BufferAddr(i_byte)]))
    /\ IF DataAt(data, BlockBegin + i_byte) # mem[BufferAddr(i_byte)]
       THEN /\ Continue("erase_set_block", i_bank, i_block, 0, i)
            /\ UNCHANGED out
       ELSE IF i_byte + 1 < BYTE_PER_BLOCK
       THEN /\ Continue("compare", i_bank, i_block, i_byte + 1, i)
            /\ UNCHANGED out
       ELSE /\ out' = Append(out, "-")
            /\ patch_next_block

(* patch_erase_set_block that passes i_bank for i_block *)
patch_erase_set_block_bank ==
    /\ call = "patch" /\ pc = "erase_set_block"
    /\ TargetWriteMem(FALSE, BLOCK_ADDR, i_bank)
    /\ Emit(FALSE, Op("set_block_num", BLOCK_ADDR, i_bank))
    /\ Continue("erase_block", i_bank, i_block, 0, i)
    /\ UNCHANGED out

(* line 613: set_block_num(i_block) *)
patch_erase_set_block ==
    /\ call = "patch" /\ pc = "erase_set_block"
    /\ TargetWriteMem(FALSE, BLOCK_ADDR, i_block)
    /\ Emit(FALSE, Op("set_block_num", BLOCK_ADDR, i_block))
    /\ Continue("erase_block", i_bank, i_block, 0, i)
    /\ UNCHANGED out

(* line 614: erase_block() *)
patch_erase_block ==
    /\ call = "patch" /\ pc = "erase_block"
    /\ \E o \in Outcomes :
        /\ Target(FALSE, "erase_block", o)
        /\ Emit(FALSE, Op("erase_block", -1, -1))
        /\ AfterWait(o, "erase_status", i_bank, i_block, 0, i)
    /\ UNCHANGED out

(* patch_erase_status that reads the return code and does not test it *)
patch_erase_status_unchecked ==
    /\ call = "patch" /\ pc = "erase_status"
    /\ TargetIdle(FALSE)
    /\ Emit(FALSE, Op("read_memory", STATUS_ADDR, mem[STATUS_ADDR]))
    /\ Continue("write", i_bank, i_block, 0, i)
    /\ UNCHANGED out

(* lines 615-618 *)
patch_erase_status ==
    /\ call = "patch" /\ pc = "erase_status"
    /\ patch_status("erase", "write", FALSE)

(* patch_write that stages data[i_byte], without block_begin *)
patch_write_no_begin ==
    /\ call = "patch" /\ pc = "write"
    /\ i_byte < BYTE_PER_BLOCK
    /\ TargetWriteMem(FALSE, BufferAddr(i_byte), DataAt(data, i_byte))
    /\ Emit(FALSE, Op("write_memory", BufferAddr(i_byte), DataAt(data, i_byte)))
    /\ Continue(IF i_byte + 1 < BYTE_PER_BLOCK THEN "write" ELSE "program_set_block",
                i_bank, i_block, i_byte + 1, i)
    /\ UNCHANGED out

(* lines 619-620: write_memory(0b10000000 | i_byte, data[block_begin + i_byte]) *)
patch_write ==
    /\ call = "patch" /\ pc = "write"
    /\ i_byte < BYTE_PER_BLOCK
    /\ TargetWriteMem(FALSE, BufferAddr(i_byte), DataAt(data, BlockBegin + i_byte))
    /\ Emit(FALSE, Op("write_memory", BufferAddr(i_byte),
                      DataAt(data, BlockBegin + i_byte)))
    /\ Continue(IF i_byte + 1 < BYTE_PER_BLOCK THEN "write" ELSE "program_set_block",
                i_bank, i_block, i_byte + 1, i)
    /\ UNCHANGED out

(* line 621: set_block_num(i_block) *)
patch_program_set_block ==
    /\ call = "patch" /\ pc = "program_set_block"
    /\ TargetWriteMem(FALSE, BLOCK_ADDR, i_block)
    /\ Emit(FALSE, Op("set_block_num", BLOCK_ADDR, i_block))
    /\ Continue("program_block", i_bank, i_block, 0, i)
    /\ UNCHANGED out

(* line 622: program_block() *)
patch_program_block ==
    /\ call = "patch" /\ pc = "program_block"
    /\ \E o \in Outcomes :
        /\ Target(FALSE, "program_block", o)
        /\ Emit(FALSE, Op("program_block", -1, -1))
        /\ AfterWait(o, "program_status", i_bank, i_block, 0, i)
    /\ UNCHANGED out

(* lines 623-627: the return code, then print('+') and the next block *)
patch_program_status ==
    /\ call = "patch" /\ pc = "program_status"
    /\ patch_status("program", "", TRUE)

(* line 629: the banks are done *)
patch_done ==
    /\ call = "patch" /\ pc = "bank"
    /\ i_bank >= TotalBanks(data)
    /\ Return(Ok)
    /\ EmitNothing(FALSE)
    /\ TargetIdle(FALSE)
    /\ UNCHANGED out

(***************************************************************************)
(* The handshake: reset() and power_cycle_init(), src/issp.py lines       *)
(* 446-475.  Each step adds its name to hsTrace.                          *)
(***************************************************************************)
WaitResults ==
    {"ok"} \cup (IF nfaults < MaxFaults THEN {"rise", "fall"} ELSE {})

HsHistory(t, r) ==
    /\ hsTrace' = t
    /\ ready' = r
    /\ UNCHANGED <<opCount, lastOp, prevOp, bufWrites, unreadyOps, flash0>>

HsTarget(w) ==
    /\ nfaults' = IF w = "ok" THEN nfaults ELSE nfaults + 1
    /\ UNCHANGED <<flash, mem, bankSel, eraseLog, progLog>>

(* _write_vector(vec) as a step of handshake f *)
hs_vector(f, at, vec, next) ==
    /\ call = f /\ pc = at
    /\ HsHistory(Append(hsTrace, vec), FALSE)
    /\ HsTarget("ok")
    /\ Continue(next, 0, 0, 0, 0)
    /\ UNCHANGED out

(* hs_wait, but the handshake goes on when wait_and_poll() timed out *)
hs_wait_unchecked(f, at, next) ==
    /\ call = f /\ pc = at
    /\ \E w \in WaitResults :
        /\ HsHistory(Append(hsTrace, IF w = "ok" THEN "wait_and_poll"
                                                ELSE "wait_and_poll_timeout"), FALSE)
        /\ HsTarget(w)
        /\ Continue(next, 0, 0, 0, 0)
    /\ UNCHANGED out

(* wait_and_poll() as a step of handshake f *)
hs_wait(f, at, next) ==
    /\ call = f /\ pc = at
    /\ \E w \in WaitResults :
        /\ HsHistory(Append(hsTrace, IF w = "ok" THEN "wait_and_poll"
                                                ELSE "wait_and_poll_timeout"), FALSE)
        /\ HsTarget(w)
        /\ IF w = "ok" THEN Continue(next, 0, 0, 0, 0) ELSE Return(SyncTimeout(w))
    /\ UNCHANGED out

(* lines 456-459 and 472-475: the Init-Vector-3 of the voltage flag *)
hs_init_3(f) ==
    /\ call = f /\ pc = "init_3"
    /\ HsHistory(Append(hsTrace, IF is_5v THEN "init_3_5v" ELSE "init_3_3v"), TRUE)
    /\ HsTarget("ok")
    /\ Return(Ok)
    /\ UNCHANGED out

(* line 451: reset_send_magic() *)
reset_call ==
    /\ Idle(MaxCalls)
    /\ Enter("reset", "init_1", NoData)
    /\ hsTrace' = <<"magic">>
    /\ ready' = FALSE
    /\ opCount' = 0 /\ lastOp' = NoOp /\ prevOp' = NoOp /\ bufWrites' = 0
    /\ flash0' = flash
    /\ UNCHANGED unreadyOps
    /\ TargetIdle(TRUE)

reset_init_1 == hs_vector("reset", "init_1", "init_1", "wait_1")

reset_wait_1 == hs_wait("reset", "wait_1", "init_2")

reset_init_2 == hs_vector("reset", "init_2", "init_2", "wait_2")

reset_wait_2 == hs_wait("reset", "wait_2", "init_3")

reset_init_3 == hs_init_3("reset")

(* line 467: power_cycle_send_magic(), which times the target's power-up *)
(* pulse on the data line before it sends the magic bits                  *)
power_cycle_init_call ==
    /\ Idle(MaxCalls)
    /\ \E w \in WaitResults :
        /\ IF w = "ok"
           THEN /\ Enter("power_cycle_init", "init_1", NoData)
                /\ hsTrace' = <<"magic">>
           ELSE /\ EnterReturn("power_cycle_init", NoData, SyncTimeout(w))
                /\ hsTrace' = <<>>
        /\ nfaults' = IF w = "ok" THEN nfaults ELSE nfaults + 1
    /\ ready' = FALSE
    /\ opCount' = 0 /\ lastOp' = NoOp /\ prevOp' = NoOp /\ bufWrites' = 0
    /\ flash0' = flash
    /\ eraseLog' = <<>> /\ progLog' = <<>>
    /\ UNCHANGED <<unreadyOps, flash, mem, bankSel>>

power_cycle_init_1 == hs_vector("power_cycle_init", "init_1", "init_1", "wait_1")

power_cycle_wait_1 == hs_wait("power_cycle_init", "wait_1", "init_2")

power_cycle_init_2 == hs_vector("power_cycle_init", "init_2", "init_2", "wait_2")

power_cycle_wait_2 == hs_wait("power_cycle_init", "wait_2", "init_3")

power_cycle_init_3 == hs_init_3("power_cycle_init")

(***************************************************************************)
(* The flash operations the user calls by themselves.                     *)
(***************************************************************************)
(* a function that sends vector vec and waits and polls *)
vector_call(vec) ==
    /\ Idle(MaxCalls)
    /\ \E o \in Outcomes :
        /\ Target(TRUE, vec, o)
        /\ Emit(TRUE, Op(vec, -1, -1))
        /\ EnterReturn(vec, NoData, IF o.wait = "ok" THEN Ok ELSE SyncTimeout(o.wait))

(* lines 502-505 *)
bulk_erase_call == vector_call("bulk_erase")

(* lines 508-511 *)
program_block_call == vector_call("program_block")

(* lines 542-545 *)
verify_setup_call == vector_call("verify_setup")

(* lines 577-580 *)
erase_block_call == vector_call("erase_block")

(* lines 490-494 *)
set_bank_num_call ==
    /\ Idle(MaxCalls)
    /\ \E b \in 0..(NumBanks - 1) :
        /\ TargetSetBank(TRUE, b)
        /\ Emit(TRUE, Op("set_bank_num", -1, b))
    /\ EnterReturn("set_bank_num", NoData, Ok)

(* lines 497-499 *)
set_block_num_call ==
    /\ Idle(MaxCalls)
    /\ \E k \in 0..(BLOCK_PER_BANK - 1) :
        /\ TargetWriteMem(TRUE, BLOCK_ADDR, k)
        /\ Emit(TRUE, Op("set_block_num", BLOCK_ADDR, k))
    /\ EnterReturn("set_block_num", NoData, Ok)

(* lines 483-484 of read_id_word(): the ID-setup vector, wait_and_poll() *)
read_id_word_call ==
    /\ Idle(MaxCalls)
    /\ \E o \in Outcomes :
        /\ Target(TRUE, "id_setup", o)
        /\ Emit(TRUE, Op("id_setup", -1, -1))
        /\ IF o.wait = "ok"
           THEN Enter("read_id_word", "high", NoData)
           ELSE EnterReturn("read_id_word", NoData, SyncTimeout(o.wait))

(* line 485: high = read_memory(0xF8), kept in i_byte *)
read_id_word_high ==
    /\ call = "read_id_word" /\ pc = "high"
    /\ TargetIdle(FALSE)
    /\ Emit(FALSE, Op("read_memory", ID_HIGH_ADDR, mem[ID_HIGH_ADDR]))
    /\ Continue("low", 0, 0, mem[ID_HIGH_ADDR], 0)
    /\ UNCHANGED out

(* lines 486-487: low = read_memory(0xF9); return high, low *)
read_id_word_low ==
    /\ call = "read_id_word" /\ pc = "low"
    /\ TargetIdle(FALSE)
    /\ Emit(FALSE, Op("read_memory", ID_LOW_ADDR, mem[ID_LOW_ADDR]))
    /\ Return(Res("ok", "id", -1, -1, i_byte, mem[ID_LOW_ADDR]))
    /\ UNCHANGED out

(***************************************************************************)
(* Initial states and specifications.                                      *)
(***************************************************************************)
FlashPos(bank, block, byte) ==
    (bank * BLOCK_PER_BANK + block) * BYTE_PER_BLOCK + byte

(* flash that holds pattern p, but for the bytes at the positions of      *)
(* flips, each of which has every bit inverted                            *)
FlashOf(p, flips) ==
    [k \in 0..(FlashSize - 1) |->
        IF k \in flips THEN 255 - Pattern(p, k) ELSE Pattern(p, k)]

FlashInits ==
    {FlashOf("A", {}),
     FlashOf("A", {FlashPos(1, 5, 10)}),
     FlashOf("A", {FlashPos(0, 3, 0), FlashPos(1, 5, 10)}),
     FlashOf("A", {FlashPos(NumBanks - 1, BLOCK_PER_BANK - 1, BYTE_PER_BLOCK - 1)}),
     FlashOf("Z", {}),
     FlashOf("G", {})}

(* the images of the sessions that also hold handshakes: one bank, and a  *)
(* length that is no multiple of a bank                                    *)
SessionImages == {[len |-> BankBytes, pat |-> "A"], [len |-> 1, pat |-> "A"]}

InitCommon ==
    /\ call = "none"
    /\ pc = ""
    /\ data = NoData
    /\ i_bank = 0 /\ i_block = 0 /\ i_byte = 0 /\ i = 0
    /\ result = NoResult
    /\ out = <<>>
    /\ ncalls = 0
    /\ nfaults = 0
    /\ mem = [a \in 0..255 |-> 0]
    /\ bankSel = 0
    /\ ready = FALSE
    /\ hsTrace = <<>>
    /\ opCount = 0
    /\ lastOp = NoOp
    /\ prevOp = NoOp
    /\ eraseLog = <<>>
    /\ progLog = <<>>
    /\ bufWrites = 0
    /\ unreadyOps = FALSE

(* read_hex_file() has not been called *)
HexIdle ==
    /\ hex_n = 0
    /\ hpc = "idle"
    /\ blocks = <<>>
    /\ security = <<>>
    /\ device_checksum = <<>>
    /\ extended_address = 0
    /\ next_block_num = 0
    /\ num_banks = None
    /\ hex_error = ""

(* there is no hex file *)
HexAtRest == hexfile = NoFile /\ HexIdle

(* The lines between two operations: _write_op() and write_noop() leave   *)
(* sdata an output that drives d and the clock low; the timer is idle.    *)
WireAtRest(d) ==
    /\ sdata_mode = "OUT"
    /\ sdata_out = d
    /\ sclk = 0
    /\ tstate = "idle"
    /\ timer_cb = "none"
    /\ wpc = "idle"
    /\ cycles = 0
    /\ waited = 0
    /\ wlog = <<>>
    /\ mainPulses = 0
    /\ trailPulses = 0
    /\ trailRise = FALSE
    /\ lateCb = FALSE

(* _write_vector() is not running *)
VectorAtRest ==
    /\ vector = <<>>
    /\ compiled = FALSE
    /\ ops = <<>>
    /\ vec_i = 0
    /\ vpc = "idle"
    /\ dispatched = <<>>

(* no function of the bit serializer runs; init_pins() has made the pins *)
(* outputs and the target has power                                        *)
BitsAtRest ==
    /\ bfn = "none"
    /\ bpc = <<"idle", "">>
    /\ issp_op = 0
    /\ address = 0
    /\ value = 0
    /\ bit_i = 0
    /\ read_value = 0
    /\ tline = 0
    /\ sclk_mode = "OUT"
    /\ xres_mode = "OUT"
    /\ xres = 0
    /\ power = TRUE
    /\ blog = <<>>
    /\ clocked = <<>>

(* The module is imported; the user has set is_5v to match the hardware.  *)
Init ==
    /\ InitCommon
    /\ HexAtRest
    /\ WireAtRest(0)
    /\ VectorAtRest
    /\ BitsAtRest
    /\ is_5v \in BOOLEAN
    /\ flash = FlashOf("G", {})
    /\ flash0 = flash

(* The module is imported with is_5v as the file has it (line 55); the    *)
(* target's flash holds any of FlashInits.                                 *)
FlashInit ==
    /\ InitCommon
    /\ HexAtRest
    /\ WireAtRest(0)
    /\ VectorAtRest
    /\ BitsAtRest
    /\ is_5v = TRUE
    /\ flash \in FlashInits
    /\ flash0 = flash

ProgramSteps ==
    \/ program_bulk_erase
    \/ program_set_bank
    \/ program_write
    \/ program_set_block
    \/ program_program_block
    \/ program_done

VerifySteps ==
    \/ verify_set_bank
    \/ verify_set_block
    \/ verify_verify_setup
    \/ verify_read
    \/ verify_done

PatchSteps ==
    \/ patch_set_bank
    \/ patch_set_block
    \/ patch_verify_setup
    \/ patch_read_status
    \/ patch_compare
    \/ patch_erase_set_block
    \/ patch_erase_block
    \/ patch_erase_status
    \/ patch_write
    \/ patch_program_set_block
    \/ patch_program_block
    \/ patch_program_status
    \/ patch_done

HandshakeSteps ==
    \/ reset_call
    \/ reset_init_1
    \/ reset_wait_1
    \/ reset_init_2
    \/ reset_wait_2
    \/ reset_init_3
    \/ power_cycle_init_call
    \/ power_cycle_init_1
    \/ power_cycle_wait_1
    \/ power_cycle_init_2
    \/ power_cycle_wait_2
    \/ power_cycle_init_3

ShortCalls ==
    \/ bulk_erase_call
    \/ program_block_call
    \/ verify_setup_call
    \/ erase_block_call
    \/ set_bank_num_call
    \/ set_block_num_call
    \/ read_id_word_call
    \/ read_id_word_high
    \/ read_id_word_low

Next ==
    \/ HandshakeSteps
    \/ ShortCalls
    \/ program_call(SessionImages, MaxCalls)
    \/ verify_call(SessionImages, MaxCalls)
    \/ patch_call(SessionImages, MaxCalls)
    \/ ProgramSteps
    \/ VerifySteps
    \/ PatchSteps

FlashNext ==
    \/ program_call(Images, MaxFlashCalls)
    \/ verify_call(Images, MaxFlashCalls)
    \/ patch_call(Images, MaxFlashCalls)
    \/ ProgramSteps
    \/ VerifySteps
    \/ PatchSteps

vars == <<sessionVars, wireVars, vecVars, bitVars, hexVars>>

Spec == Init /\ [][Next]_vars

FlashSpec == FlashInit /\ [][FlashNext]_vars

(***************************************************************************)
(* The round trip: the user programs an image into a target whose flash   *)
(* holds any of FlashInits and, when program() has returned, verifies the *)
(* same image.                                                             *)
(***************************************************************************)
(* verify(data) typed after program(data) has returned *)
verify_after_program ==
    /\ call = "none" /\ result.fn = "program" /\ result.kind = "ok"
    /\ verify_call({data}, 2)

RoundTripNext ==
    \/ program_call(ValidImages, 1)
    \/ verify_after_program
    \/ ProgramSteps
    \/ VerifySteps

RoundTripSpec == FlashInit /\ [][RoundTripNext]_vars

(***************************************************************************)
(* wait_and_poll() on the lines, src/issp.py lines 166-204.  The main     *)
(* flow runs one pin access per step; the two timer callbacks are         *)
(* interrupts, which run between any two steps of the main flow once the  *)
(* timer is started, _on_callback before _off_callback; the target raises *)
(* and lowers the data line when it chooses.                              *)
(***************************************************************************)
(* _drive_clock(40), line 204 *)
TRAILING_CLOCKS == 40

(* The time after which machine.time_pulse_us() gives up waiting for an   *)
(* edge (_WAIT_AND_POLL_TIMEOUT_US, 100000 us in the source), in steps of *)
(* the model's clock.                                                      *)
TimeoutTicks == 2

(* the level of the data line: the pin's when it is an output, else the   *)
(* target's                                                                *)
Line == IF sdata_mode = "OUT" THEN sdata_out
        ELSE IF tstate = "busy" THEN 1 ELSE 0

(* data is an output again and the trailing clock pulses may run *)
Trailing == wpc \in {"drive_high", "drive_low", "returned"}

(* sclk(v), by the main flow or by a timer callback *)
SclkWrite(v) ==
    /\ sclk' = v
    /\ trailRise' = IF v = 1 THEN (IF sclk = 0 THEN Trailing ELSE trailRise) ELSE FALSE
    /\ trailPulses' = IF v = 0 /\ sclk = 1 /\ trailRise THEN trailPulses + 1
                      ELSE trailPulses

SclkIdle == UNCHANGED <<sclk, trailRise, trailPulses>>

(* a step of the main flow that goes on at statement p *)
WireMain(p, ev) ==
    /\ wpc' = p
    /\ wlog' = IF ev = "" THEN wlog ELSE Append(wlog, ev)
    /\ UNCHANGED <<tstate, lateCb>>
    /\ UNCHANGED <<sessionVars, vecVars, bitVars, hexVars>>

(* line 192: sdata.init(pyb.Pin.IN) *)
wait_and_poll_call ==
    /\ wpc = "idle"
    /\ sdata_mode' = "IN"
    /\ WireMain("timer_init", "in")
    /\ SclkIdle
    /\ UNCHANGED <<sdata_out, timer_cb, cycles, waited, mainPulses>>

(* line 194: timer.init(freq=50000, callback=_on_callback) *)
wait_and_poll_timer_init ==
    /\ wpc = "timer_init"
    /\ timer_cb' = "on"
    /\ waited' = 0
    /\ WireMain("wait_high", "timer")
    /\ SclkIdle
    /\ UNCHANGED <<sdata_mode, sdata_out, cycles, mainPulses>>

(* time_pulse_us_high, but it gives up as soon as it finds the line low *)
time_pulse_us_high_impatient ==
    /\ wpc = "wait_high"
    /\ \/ /\ Line = 1
          /\ WireMain("wait_low", "rise")
          /\ waited' = 0
       \/ /\ Line # 1
          /\ WireMain("raised_rise", "")
          /\ UNCHANGED waited
    /\ SclkIdle
    /\ UNCHANGED <<sdata_mode, sdata_out, timer_cb, cycles, mainPulses>>

(* lines 196-198: machine.time_pulse_us(sdata, 1, timeout) waits for the  *)
(* line to be high; -2 and the RuntimeError when the time is up           *)
time_pulse_us_high ==
    /\ wpc = "wait_high"
    /\ \/ /\ Line = 1
          /\ WireMain("wait_low", "rise")
          /\ waited' = 0
       \/ /\ Line # 1 /\ waited >= TimeoutTicks
          /\ WireMain("raised_rise", "")
          /\ UNCHANGED waited
    /\ SclkIdle
    /\ UNCHANGED <<sdata_mode, sdata_out, timer_cb, cycles, mainPulses>>

(* lines 196-200: machine.time_pulse_us() times the line being high; -1   *)
(* and the RuntimeError when the time is up                                *)
time_pulse_us_low ==
    /\ wpc = "wait_low"
    /\ \/ /\ Line # 1
          /\ WireMain("sdata_0", "fall")
          /\ waited' = 0
       \/ /\ Line = 1 /\ waited >= TimeoutTicks
          /\ WireMain("raised_fall", "")
          /\ UNCHANGED waited
    /\ SclkIdle
    /\ UNCHANGED <<sdata_mode, sdata_out, timer_cb, cycles, mainPulses>>

(* time passes while machine.time_pulse_us() polls the line *)
time_pulse_us_tick ==
    /\ wpc \in {"wait_high", "wait_low"}
    /\ waited < TimeoutTicks
    /\ waited' = waited + 1
    /\ SclkIdle
    /\ UNCHANGED <<sdata_mode, sdata_out, tstate, timer_cb, wpc, cycles>>
    /\ UNCHANGED <<wlog, mainPulses, lateCb>>
    /\ UNCHANGED <<sessionVars, vecVars, bitVars, hexVars>>

(* line 202: sdata(0) *)
wait_and_poll_sdata_0 ==
    /\ wpc = "sdata_0"
    /\ sdata_out' = 0
    /\ WireMain("init_out", "low")
    /\ SclkIdle
    /\ UNCHANGED <<sdata_mode, timer_cb, cycles, waited, mainPulses>>

(* lines 203-204: sdata.init(pyb.Pin.OUT_PP), and _drive_clock(40) is     *)
(* entered                                                                 *)
wait_and_poll_init_out ==
    /\ wpc = "init_out"
    /\ sdata_mode' = "OUT"
    /\ cycles' = TRAILING_CLOCKS
    /\ WireMain("drive_high", "out")
    /\ SclkIdle
    /\ UNCHANGED <<sdata_out, timer_cb, waited, mainPulses>>

(* lines 168-169 of _drive_clock(): cycles > 0, sclk(1) *)
drive_clock_high ==
    /\ wpc = "drive_high"
    /\ cycles > 0
    /\ SclkWrite(1)
    /\ WireMain("drive_low", IF cycles = TRAILING_CLOCKS THEN "clock" ELSE "")
    /\ UNCHANGED <<sdata_mode, sdata_out, timer_cb, cycles, waited, mainPulses>>

(* lines 170-171 of _drive_clock(): sclk(0), cycles -= 1 *)
drive_clock_low ==
    /\ wpc = "drive_low"
    /\ SclkWrite(0)
    /\ cycles' = cycles - 1
    /\ mainPulses' = mainPulses + 1
    /\ WireMain("drive_high", "")
    /\ UNCHANGED <<sdata_mode, sdata_out, timer_cb, waited>>

(* line 168 of _drive_clock(): cycles is 0, and wait_and_poll() returns *)
wait_and_poll_return ==
    /\ wpc = "drive_high"
    /\ cycles = 0
    /\ WireMain("returned", "")
    /\ SclkIdle
    /\ UNCHANGED <<sdata_mode, sdata_out, timer_cb, cycles, waited, mainPulses>>

(* an interrupt of the timer: the main flow stays where it is *)
WireInterrupt ==
    /\ lateCb' = (lateCb \/ Trailing)
    /\ UNCHANGED <<sdata_mode, sdata_out, tstate, wpc, cycles, waited>>
    /\ UNCHANGED <<wlog, mainPulses>>
    /\ UNCHANGED <<sessionVars, vecVars, bitVars, hexVars>>

(* lines 174-177: sclk(1); t.callback(_off_callback) *)
on_callback ==
    /\ timer_cb = "on"
    /\ SclkWrite(1)
    /\ timer_cb' = "off"
    /\ WireInterrupt

(* off_callback without t.deinit(): the timer goes on with _on_callback *)
off_callback_periodic ==
    /\ timer_cb = "off"
    /\ SclkWrite(0)
    /\ timer_cb' = "on"
    /\ WireInterrupt

(* lines 180-183: sclk(0); t.deinit() *)
off_callback ==
    /\ timer_cb = "off"
    /\ SclkWrite(0)
    /\ timer_cb' = "none"
    /\ WireInterrupt

(* the target moves the data line *)
TargetMove(from, to) ==
    /\ tstate = from
    /\ tstate' = to
    /\ SclkIdle
    /\ UNCHANGED <<sdata_mode, sdata_out, timer_cb, wpc, cycles, waited>>
    /\ UNCHANGED <<wlog, mainPulses, lateCb>>
    /\ UNCHANGED <<sessionVars, vecVars, bitVars, hexVars>>

(* the target starts to execute the vector and holds the data line high *)
target_rise == TargetMove("idle", "busy")

(* the target is done and lets the data line go low *)
target_fall == TargetMove("busy", "done")

(* The vector before wait_and_poll() has left sdata an output, high after *)
(* _write_op() and low after write_noop().                                 *)
WireInit ==
    /\ InitCommon
    /\ HexAtRest
    /\ is_5v = TRUE
    /\ flash = FlashOf("Z", {})
    /\ flash0 = flash
    /\ \E d \in {0, 1} : WireAtRest(d)
    /\ VectorAtRest
    /\ BitsAtRest

WireNext ==
    \/ wait_and_poll_call
    \/ wait_and_poll_timer_init
    \/ time_pulse_us_high
    \/ time_pulse_us_low
    \/ time_pulse_us_tick
    \/ wait_and_poll_sdata_0
    \/ wait_and_poll_init_out
    \/ drive_clock_high
    \/ drive_clock_low
    \/ wait_and_poll_return
    \/ on_callback
    \/ off_callback
    \/ target_rise
    \/ target_fall

WireSpec == WireInit /\ [][WireNext]_vars

(***************************************************************************)
(* The vectors: generate_bytes() of src/issp_parser.py, lines 65-78, and  *)
(* _write_vector() of src/issp.py, lines 431-443.                         *)
(***************************************************************************)
(* the longest vector, in commands, and the longest bytecode that is not  *)
(* generated from a vector, in bytes                                       *)
MaxCommands == 2

MaxRawLen == 4

(* the addresses and values of the commands of the vectors *)
ByteSamples == {0, 5, 255}

(* the bytes of the bytecode that is not generated from a vector *)
RawBytes == {0, 4, 5, 255}

(* a string of binary digits as parse() cuts it from the document: the    *)
(* digits of n, w of them, most significant first                         *)
Bits(n, w) == [k \in 1..w |-> (n \div (2 ^ (w - k))) % 2]

(* int(c, base=2) *)
RECURSIVE IntBase2(_)
IntBase2(c) ==
    IF c = <<>> THEN 0
    ELSE 2 * IntBase2(SubSeq(c, 1, Len(c) - 1)) + c[Len(c)]

(* ISSPOp.NO_OP.value, '000' *)
NO_OP == <<0, 0, 0>>

(* the tuple parse() makes of a command: (NO_OP,) or (op, address, value) *)
(* with op.value a string of 3 digits, address and value strings of 8     *)
ParsedNoOp == [op |-> NO_OP]

ParsedOp(kind, a, v) ==
    [op |-> Bits(kind, 3), address |-> Bits(a, 8), value |-> Bits(v, 8)]

(* generate_bytes, but address and value are read least significant      *)
(* digit first                                                             *)
RECURSIVE generate_bytes_reversed(_)
generate_bytes_reversed(commands) ==
    IF commands = <<>> THEN <<>>
    ELSE LET command == Head(commands)
             Rev(c) == [k \in 1..Len(c) |-> c[Len(c) + 1 - k]]
         IN (IF command.op = NO_OP
             THEN <<0>>
             ELSE <<IntBase2(command.op), IntBase2(Rev(command.address)),
                    IntBase2(Rev(command.value))>>)
            \o generate_bytes_reversed(Tail(commands))

(* issp_parser.py lines 65-78 *)
RECURSIVE generate_bytes(_)
generate_bytes(commands) ==
    IF commands = <<>> THEN <<>>
    ELSE LET command == Head(commands)
         IN (IF command.op = NO_OP
             THEN <<0>>
             ELSE <<IntBase2(command.op), IntBase2(command.address),
                    IntBase2(command.value)>>)
            \o generate_bytes(Tail(commands))

(* a vector: commands NoOp and Op(kind, address, value) *)
VecNoOp == [kind |-> 0, address |-> 0, value |-> 0]

VecOp(kind, a, v) == [kind |-> kind, address |-> a, value |-> v]

Commands ==
    {VecNoOp} \cup {VecOp(k, a, v) : k \in 4..7, a \in ByteSamples, v \in ByteSamples}

SeqsUpTo(S, n) == UNION {[1..m -> S] : m \in 0..n}

(* what parse() gives for the document's text of vector V *)
Parsed(V) ==
    [k \in 1..Len(V) |->
        IF V[k].kind = 0 THEN ParsedNoOp
        ELSE ParsedOp(V[k].kind, V[k].address, V[k].value)]

(* ptr_ops[k], and whatever byte lies behind the buffer *)
PtrAt(k) == IF k < Len(ops) THEN ops[k + 1] ELSE 0

WriteNoop(at) == [fn |-> "write_noop", at |-> at, issp_op |-> 0, address |-> 0, value |-> 0]

WriteOp(at, o, a, v) ==
    [fn |-> "_write_op", at |-> at, issp_op |-> o, address |-> a, value |-> v]

VectorStep ==
    /\ UNCHANGED <<vector, compiled, ops>>
    /\ UNCHANGED <<sessionVars, wireVars, bitVars, hexVars>>

(* lines 432-435 *)
write_vector_call ==
    /\ vpc = "idle"
    /\ vpc' = "loop"
    /\ vec_i' = 0
    /\ UNCHANGED dispatched
    /\ VectorStep

(* lines 436-440: a zero byte, write_noop(), i += 1 *)
write_vector_noop ==
    /\ vpc = "loop"
    /\ vec_i < Len(ops)
    /\ PtrAt(vec_i) = 0
    /\ dispatched' = Append(dispatched, WriteNoop(vec_i))
    /\ vec_i' = vec_i + 1
    /\ UNCHANGED vpc
    /\ VectorStep

(* write_vector_op, but the second byte of the triple is taken for the   *)
(* next command                                                            *)
write_vector_op_short ==
    /\ vpc = "loop"
    /\ vec_i < Len(ops)
    /\ PtrAt(vec_i) # 0
    /\ vec_i + 3 <= Len(ops)
    /\ dispatched' = Append(dispatched,
            WriteOp(vec_i, PtrAt(vec_i), PtrAt(vec_i + 1), PtrAt(vec_i + 2)))
    /\ vec_i' = vec_i + 2
    /\ UNCHANGED vpc
    /\ VectorStep

(* write_vector_op, without the assert *)
write_vector_op_unchecked ==
    /\ vpc = "loop"
    /\ vec_i < Len(ops)
    /\ PtrAt(vec_i) # 0
    /\ dispatched' = Append(dispatched,
            WriteOp(vec_i, PtrAt(vec_i), PtrAt(vec_i + 1), PtrAt(vec_i + 2)))
    /\ vec_i' = vec_i + 3
    /\ UNCHANGED vpc
    /\ VectorStep

(* lines 441-443: the assert holds, _write_op(), i += 3 *)
write_vector_op ==
    /\ vpc = "loop"
    /\ vec_i < Len(ops)
    /\ PtrAt(vec_i) # 0
    /\ vec_i + 3 <= Len(ops)
    /\ dispatched' = Append(dispatched,
            WriteOp(vec_i, PtrAt(vec_i), PtrAt(vec_i + 1), PtrAt(vec_i + 2)))
    /\ vec_i' = vec_i + 3
    /\ UNCHANGED vpc
    /\ VectorStep

(* line 441: assert i + 3 <= len_ops fails *)
write_vector_assert ==
    /\ vpc = "loop"
    /\ vec_i < Len(ops)
    /\ PtrAt(vec_i) # 0
    /\ ~(vec_i + 3 <= Len(ops))
    /\ vpc' = "AssertionError"
    /\ UNCHANGED <<vec_i, dispatched>>
    /\ VectorStep

(* line 436: i < len_ops is false *)
write_vector_return ==
    /\ vpc = "loop"
    /\ ~(vec_i < Len(ops))
    /\ vpc' = "returned"
    /\ UNCHANGED <<vec_i, dispatched>>
    /\ VectorStep

(* _write_vector() is about to run on the bytes generated from a vector,  *)
(* or on any bytes                                                         *)
VectorInit ==
    /\ InitCommon
    /\ HexAtRest
    /\ is_5v = TRUE
    /\ flash = FlashOf("Z", {})
    /\ flash0 = flash
    /\ WireAtRest(0)
    /\ BitsAtRest
    /\ vec_i = 0
    /\ vpc = "idle"
    /\ dispatched = <<>>
    /\ \/ /\ compiled = TRUE
          /\ vector \in SeqsUpTo(Commands, MaxCommands)
          /\ ops = generate_bytes(Parsed(vector))
       \/ /\ compiled = FALSE
          /\ vector = <<>>
          /\ ops \in SeqsUpTo(RawBytes, MaxRawLen)

VectorNext ==
    \/ write_vector_call
    \/ write_vector_noop
    \/ write_vector_op
    \/ write_vector_assert
    \/ write_vector_return

VectorSpec == VectorInit /\ [][VectorNext]_vars

(***************************************************************************)
(* The vectors of the file: the bytes objects _VECTOR_* of src/issp.py,   *)
(* lines 75-127, byte for byte, and the functions that pass them to       *)
(* _write_vector().                                                        *)
(***************************************************************************)
(* _VECTOR_INIT_1, lines 75-78: Init-1, 41 bytes *)
VECTOR_INIT_1 ==
    <<0, 0, 0, 0, 0, 6, 247, 0, 6, 246, 0, 4, 248, 58, 4, 249, 3, 6,
      245, 0, 6, 244, 3, 4, 251, 128, 6, 249, 48, 6, 250, 64, 6, 240,
      9, 6, 248, 0, 6, 255, 18>>

(* _VECTOR_INIT_2 without its last byte *)
VECTOR_INIT_2_truncated ==
    <<6, 247, 0, 6, 246, 0, 4, 248, 58, 4, 249, 3, 6, 245, 0, 6, 244,
      3, 4, 251, 128, 6, 249, 48, 6, 250, 64, 4, 250, 1, 6, 240, 6, 6,
      248, 0, 6, 255>>

(* _VECTOR_INIT_2, lines 80-83: Init-2, 39 bytes *)
VECTOR_INIT_2 ==
    <<6, 247, 0, 6, 246, 0, 4, 248, 58, 4, 249, 3, 6, 245, 0, 6, 244,
      3, 4, 251, 128, 6, 249, 48, 6, 250, 64, 4, 250, 1, 6, 240, 6, 6,
      248, 0, 6, 255, 18>>

(* _VECTOR_INIT_3_3V, lines 85-92: Init-3 for 3.3 V, 106 bytes *)
VECTOR_INIT_3_3V ==
    <<6, 247, 0, 6, 244, 3, 6, 245, 0, 6, 246, 8, 6, 248, 81, 6, 249,
      248, 6, 250, 48, 6, 255, 18, 0, 6, 247, 0, 6, 244, 3, 6, 245, 0,
      6, 246, 8, 6, 248, 96, 6, 249, 234, 6, 250, 48, 6, 247, 16, 6,
      255, 18, 0, 6, 247, 0, 6, 244, 3, 6, 245, 0, 6, 246, 8, 6, 248,
      81, 6, 249, 249, 6, 250, 48, 6, 255, 18, 0, 6, 247, 0, 6, 244,
      3, 6, 245, 0, 6, 246, 8, 6, 248, 96, 6, 249, 232, 6, 250, 48, 6,
      247, 16, 6, 255, 18, 0>>

(* _VECTOR_INIT_3_5V, lines 94-101: Init-3 for 5 V, 106 bytes *)
VECTOR_INIT_3_5V ==
    <<6, 247, 0, 6, 244, 3, 6, 245, 0, 6, 246, 8, 6, 248, 81, 6, 249,
      252, 6, 250, 48, 6, 255, 18, 0, 6, 247, 0, 6, 244, 3, 6, 245, 0,
      6, 246, 8, 6, 248, 96, 6, 249, 234, 6, 250, 48, 6, 247, 16, 6,
      255, 18, 0, 6, 247, 0, 6, 244, 3, 6, 245, 0, 6, 246, 8, 6, 248,
      81, 6, 249, 253, 6, 250, 48, 6, 255, 18, 0, 6, 247, 0, 6, 244,
      3, 6, 245, 0, 6, 246, 8, 6, 248, 96, 6, 249, 232, 6, 250, 48, 6,
      247, 16, 6, 255, 18, 0>>

(* _VECTOR_ID_SETUP, lines 103-107: ID-setup, 45 bytes *)
VECTOR_ID_SETUP ==
    <<6, 247, 16, 6, 224, 2, 6, 247, 0, 6, 246, 0, 4, 248, 58, 4, 249,
      3, 6, 245, 0, 6, 244, 3, 4, 251, 128, 6, 249, 48, 6, 250, 64, 4,
      250, 0, 6, 240, 6, 6, 248, 0, 6, 255, 18>>

(* _VECTOR_BULK_ERASE, lines 109-112: bulk-erase, 42 bytes *)
VECTOR_BULK_ERASE ==
    <<4, 252, 21, 4, 254, 86, 6, 247, 0, 6, 246, 0, 4, 248, 58, 4,
      249, 3, 6, 245, 0, 6, 244, 3, 4, 251, 128, 6, 249, 48, 6, 250,
      64, 6, 240, 5, 6, 248, 0, 6, 255, 18>>

(* _VECTOR_PROGRAM_BLOCK, lines 114-117: program-block, 42 bytes *)
VECTOR_PROGRAM_BLOCK ==
    <<4, 252, 84, 4, 254, 86, 6, 247, 0, 6, 246, 0, 4, 248, 58, 4,
      249, 3, 6, 245, 0, 6, 244, 3, 4, 251, 128, 6, 249, 48, 6, 250,
      64, 6, 240, 2, 6, 248, 0, 6, 255, 18>>

(* _VECTOR_VERIFY_SETUP, lines 119-122: verify-setup, 36 bytes *)
VECTOR_VERIFY_SETUP ==
    <<6, 247, 0, 6, 246, 0, 4, 248, 58, 4, 249, 3, 6, 245, 0, 6, 244,
      3, 4, 251, 128, 6, 249, 48, 6, 250, 64, 6, 240, 1, 6, 248, 0, 6,
      255, 18>>

(* _VECTOR_ERASE_BLOCK, lines 124-127: erase-block, 39 bytes *)
VECTOR_ERASE_BLOCK ==
    <<4, 252, 84, 4, 254, 86, 6, 247, 0, 6, 246, 0, 4, 248, 58, 4,
      249, 3, 6, 245, 0, 6, 244, 3, 6, 249, 48, 6, 250, 64, 6, 240, 3,
      6, 248, 0, 6, 255, 18>>

(* the functions that call _write_vector() *)
VectorCallers ==
    {"reset", "power_cycle_init", "read_id_word", "bulk_erase", "program_block",
     "verify_setup", "erase_block"}

(* the vectors function f passes to _write_vector() when is_5v is v5:     *)
(* lines 452-459, 468-475, 483, 504, 510, 544 and 579                      *)
VectorsOf(f, v5) ==
    CASE f \in {"reset", "power_cycle_init"} ->
            {VECTOR_INIT_1, VECTOR_INIT_2,
             IF v5 THEN VECTOR_INIT_3_5V ELSE VECTOR_INIT_3_3V}
      [] f = "read_id_word" -> {VECTOR_ID_SETUP}
      [] f = "bulk_erase" -> {VECTOR_BULK_ERASE}
      [] f = "program_block" -> {VECTOR_PROGRAM_BLOCK}
      [] f = "verify_setup" -> {VECTOR_VERIFY_SETUP}
      [] f = "erase_block" -> {VECTOR_ERASE_BLOCK}

(* _write_vector() is about to run for one of the functions of the file,  *)
(* with is_5v as the user has set it                                       *)
EmbeddedInit ==
    /\ InitCommon
    /\ HexAtRest
    /\ is_5v \in BOOLEAN
    /\ flash = FlashOf("Z", {})
    /\ flash0 = flash
    /\ WireAtRest(0)
    /\ BitsAtRest
    /\ vec_i = 0
    /\ vpc = "idle"
    /\ dispatched = <<>>
    /\ compiled = FALSE
    /\ vector = <<>>
    /\ \E f \in VectorCallers : ops \in VectorsOf(f, is_5v)

(* _write_vector() on the vectors of the file, and on the bytecodes of    *)
(* VectorSpec                                                              *)
EmbeddedSpec == (EmbeddedInit \/ VectorInit) /\ [][VectorNext]_vars

(***************************************************************************)
(* The bit serializer: _read_op() and _write_op(), src/issp.py lines      *)
(* 339-404, one pin access per step.  bpc is <<phase, statement>>: the    *)
(* phases "op", "addr" and "val" are the loops that shift the opcode, the *)
(* address and the value out, "trail" is the end of _write_op(), and      *)
(* "turn", "prime1", "prime2", "read", "last" and "out" are the rest of   *)
(* _read_op().                                                             *)
(***************************************************************************)
(* _drive_clock(22) of write_noop(), line 211 *)
NOOP_CLOCKS == 22

(* the addresses and values _read_op() and _write_op() are called with *)
ArgSamples == {0, 1, 170, 255}

(* the opcodes _read_op() is called with: _ISSP_OP_READ_MEM and           *)
(* _ISSP_OP_READ_REG, lines 63 and 65                                      *)
ReadOps == {5, 7}

(* (x >> i) & 1 *)
ShiftBit(x, k) == (x \div (2 ^ k)) % 2

(* the level of the data line *)
BitLine == IF sdata_mode = "OUT" THEN sdata_out ELSE tline

DataEv(b) == IF b = 1 THEN "data1" ELSE "data0"

SampleEv(b) == IF b = 1 THEN "sample1" ELSE "sample0"

(* the argument the loop of phase ph shifts out *)
ShiftArg(ph) ==
    CASE ph = "op" -> issp_op
      [] ph = "addr" -> address
      [] ph = "val" -> value

ShiftPhases == {"op", "addr", "val"}

(* a step of the function: it goes on at p with loop variable k, having   *)
(* made pin access ev                                                      *)
BitStep(p, k, ev) ==
    /\ bpc' = p
    /\ bit_i' = k
    /\ blog' = Append(blog, ev)
    /\ UNCHANGED <<bfn, issp_op, address, value, tline, sclk_mode, xres_mode,
                   xres, power>>
    /\ UNCHANGED <<sessionVars, waitVars, vecVars, hexVars>>

(* lines 340-341 and 377-378: the function is entered, i = 2 *)
serializer_call ==
    /\ bfn \in {"_read_op", "_write_op"}
    /\ bpc = <<"idle", "">>
    /\ bpc' = <<"op", "data">>
    /\ bit_i' = 2
    /\ UNCHANGED <<blog, clocked, read_value, sdata_mode, sdata_out, sclk>>
    /\ UNCHANGED <<bfn, issp_op, address, value, tline, sclk_mode, xres_mode,
                   xres, power>>
    /\ UNCHANGED <<sessionVars, waitVars, vecVars, hexVars>>

(* shift_data, but the bits go out least significant first *)
shift_data_lsb ==
    /\ bpc[1] \in ShiftPhases /\ bpc[2] = "data"
    /\ LET top == IF bpc[1] = "op" THEN 2 ELSE 7
           b == ShiftBit(ShiftArg(bpc[1]), top - bit_i)
       IN /\ sdata_out' = b
          /\ BitStep(<<bpc[1], "high">>, bit_i, DataEv(b))
    /\ UNCHANGED <<sdata_mode, sclk, clocked, read_value>>

(* lines 343, 350, 380, 387, 394: sdata((x >> i) & 1) *)
shift_data ==
    /\ bpc[1] \in ShiftPhases /\ bpc[2] = "data"
    /\ LET b == ShiftBit(ShiftArg(bpc[1]), bit_i)
       IN /\ sdata_out' = b
          /\ BitStep(<<bpc[1], "high">>, bit_i, DataEv(b))
    /\ UNCHANGED <<sdata_mode, sclk, clocked, read_value>>

(* sclk(1) *)
clock_high ==
    /\ bpc[2] = "high"
    /\ sclk' = 1
    /\ clocked' = IF sdata_mode = "OUT" THEN Append(clocked, sdata_out) ELSE clocked
    /\ BitStep(<<bpc[1], "low">>, bit_i, "high")
    /\ UNCHANGED <<sdata_mode, sdata_out, read_value>>

(* where the function goes on after the sclk(0) of phase ph, and with     *)
(* which i                                                                 *)
AfterLow(ph) ==
    CASE ph = "op" ->
            IF bit_i - 1 >= 0 THEN <<<<"op", "data">>, bit_i - 1>>
            ELSE <<<<"addr", "data">>, 7>>
      [] ph = "addr" ->
            IF bit_i - 1 >= 0 THEN <<<<"addr", "data">>, bit_i - 1>>
            ELSE IF bfn = "_write_op" THEN <<<<"val", "data">>, 7>>
            ELSE <<<<"turn", "in">>, bit_i - 1>>
      [] ph = "val" ->
            IF bit_i - 1 >= 0 THEN <<<<"val", "data">>, bit_i - 1>>
            ELSE <<<<"trail", "data">>, bit_i - 1>>
      [] ph = "trail" ->
            IF bit_i + 1 < 3 THEN <<<<"trail", "high">>, bit_i + 1>>
            ELSE <<<<"returned", "">>, bit_i + 1>>
      [] ph = "prime1" -> <<<<"prime2", "high">>, bit_i>>
      [] ph = "prime2" -> <<<<"read", "sample">>, 7>>
      [] ph = "read" ->
            IF bit_i - 1 >= 0 THEN <<<<"read", "sample">>, bit_i - 1>>
            ELSE <<<<"last", "high">>, bit_i - 1>>
      [] ph = "last" -> <<<<"out", "init">>, bit_i>>
      [] ph = "noop" ->
            IF bit_i - 1 > 0 THEN <<<<"noop", "high">>, bit_i - 1>>
            ELSE <<<<"returned", "">>, bit_i - 1>>

(* sclk(0), and what follows it up to the next pin access: i -= 1 or      *)
(* i += 1 and the test of the loop                                         *)
clock_low ==
    /\ bpc[2] = "low"
    /\ sclk' = 0
    /\ BitStep(AfterLow(bpc[1])[1], AfterLow(bpc[1])[2], "low")
    /\ UNCHANGED <<sdata_mode, sdata_out, clocked, read_value>>

(* lines 399-400 of _write_op(): sdata(1), i = 0 *)
write_op_trail_data ==
    /\ bpc = <<"trail", "data">>
    /\ sdata_out' = 1
    /\ BitStep(<<"trail", "high">>, 0, "data1")
    /\ UNCHANGED <<sdata_mode, sclk, clocked, read_value>>

(* lines 355-357 of _read_op(): read_value = 0, sdata.init(pyb.Pin.IN) *)
read_op_init_in ==
    /\ bpc = <<"turn", "in">>
    /\ read_value' = 0
    /\ sdata_mode' = "IN"
    /\ BitStep(<<"prime1", "high">>, bit_i, "in")
    /\ UNCHANGED <<sdata_out, sclk, clocked>>

(* read_op_sample, but the first sample is bit 0 *)
read_op_sample_lsb ==
    /\ bpc = <<"read", "sample">>
    /\ read_value' = BitOr(read_value, BitLine * (2 ^ (7 - bit_i)))
    /\ BitStep(<<"read", "high">>, bit_i, SampleEv(BitLine))
    /\ UNCHANGED <<sdata_mode, sdata_out, sclk, clocked>>

(* line 365 of _read_op(): read_value |= int(sdata()) << i *)
read_op_sample ==
    /\ bpc = <<"read", "sample">>
    /\ read_value' = BitOr(read_value, BitLine * (2 ^ bit_i))
    /\ BitStep(<<"read", "high">>, bit_i, SampleEv(BitLine))
    /\ UNCHANGED <<sdata_mode, sdata_out, sclk, clocked>>

(* lines 372-373 of _read_op(): sdata.init(pyb.Pin.OUT_PP), return *)
read_op_init_out ==
    /\ bpc = <<"out", "init">>
    /\ sdata_mode' = "OUT"
    /\ BitStep(<<"returned", "">>, bit_i, "out")
    /\ UNCHANGED <<sdata_out, sclk, clocked, read_value>>

(* write_noop() of lines 207-211 and its _drive_clock(22), lines 166-171: *)
(* phase "noop", with bit_i the cycles that are left.  The function is    *)
(* entered.                                                                *)
write_noop_call ==
    /\ bfn = "write_noop"
    /\ bpc = <<"idle", "">>
    /\ bpc' = <<"noop", "data">>
    /\ UNCHANGED <<blog, clocked, read_value, sdata_mode, sdata_out, sclk>>
    /\ UNCHANGED <<bfn, issp_op, address, value, bit_i, tline, sclk_mode,
                   xres_mode, xres, power>>
    /\ UNCHANGED <<sessionVars, waitVars, vecVars, hexVars>>

(* write_noop_sdata_0, but _drive_clock() is called with 21 *)
write_noop_sdata_0_short ==
    /\ bpc = <<"noop", "data">>
    /\ sdata_out' = 0
    /\ BitStep(<<"noop", "high">>, NOOP_CLOCKS - 1, "data0")
    /\ UNCHANGED <<sdata_mode, sclk, clocked, read_value>>

(* lines 210-211 and 167: sdata(0), _drive_clock(22) is entered and       *)
(* cycles > 0 holds                                                        *)
write_noop_sdata_0 ==
    /\ bpc = <<"noop", "data">>
    /\ sdata_out' = 0
    /\ BitStep(IF NOOP_CLOCKS > 0 THEN <<"noop", "high">> ELSE <<"returned", "">>,
               NOOP_CLOCKS, "data0")
    /\ UNCHANGED <<sdata_mode, sclk, clocked, read_value>>

(* the target presents another level on the data line *)
target_present ==
    /\ bfn = "_read_op"
    /\ bpc[1] \notin {"idle", "returned"}
    /\ tline' = 1 - tline
    /\ UNCHANGED <<bfn, bpc, issp_op, address, value, bit_i, read_value,
                   sclk_mode, xres_mode, xres, power, blog, clocked>>
    /\ UNCHANGED <<sdata_mode, sdata_out, sclk>>
    /\ UNCHANGED <<sessionVars, waitVars, vecVars, hexVars>>

(* _read_op() or _write_op() is about to run, after an operation that     *)
(* left data an output and the clock low                                   *)
BitInit ==
    /\ InitCommon
    /\ HexAtRest
    /\ is_5v = TRUE
    /\ flash = FlashOf("Z", {})
    /\ flash0 = flash
    /\ \E d \in {0, 1} : WireAtRest(d)
    /\ VectorAtRest
    /\ bfn \in {"_read_op", "_write_op"}
    /\ bpc = <<"idle", "">>
    /\ issp_op \in IF bfn = "_write_op" THEN 0..7 ELSE ReadOps
    /\ address \in ArgSamples
    /\ value \in IF bfn = "_write_op" THEN ArgSamples ELSE {0}
    /\ bit_i = 0
    /\ read_value = 0
    /\ tline \in IF bfn = "_write_op" THEN {0} ELSE {0, 1}
    /\ sclk_mode = "OUT"
    /\ xres_mode = "OUT"
    /\ xres = 0
    /\ power = TRUE
    /\ blog = <<>>
    /\ clocked = <<>>

BitNext ==
    \/ serializer_call
    \/ shift_data
    \/ clock_high
    \/ clock_low
    \/ write_op_trail_data
    \/ read_op_init_in
    \/ read_op_sample
    \/ read_op_init_out
    \/ target_present

BitSpec == BitInit /\ [][BitNext]_vars

(***************************************************************************)
(* The commands at the pins: write_noop(), _write_op() and _read_op()     *)
(* called on their own, and _write_vector() with the serializer running   *)
(* each command it dispatches, one pin access per step.                    *)
(***************************************************************************)
(* no function of the serializer is running *)
SerializerAtRest == bpc[1] \in {"idle", "returned"}

(* _write_vector() calls f with opcode o, address a and value v *)
SerializerEnter(f, p, k, o, a, v) ==
    /\ bfn' = f
    /\ bpc' = p
    /\ bit_i' = k
    /\ issp_op' = o
    /\ address' = a
    /\ value' = v
    /\ UNCHANGED <<read_value, tline, sclk_mode, xres_mode, xres, power, blog,
                   clocked>>
    /\ UNCHANGED <<sdata_mode, sdata_out, sclk>>
    /\ UNCHANGED <<vector, compiled, ops, vpc>>
    /\ UNCHANGED <<sessionVars, waitVars, hexVars>>

(* lines 436-440: a zero byte, write_noop() is entered; i += 1 follows    *)
(* its return                                                              *)
write_vector_noop_pins ==
    /\ vpc = "loop" /\ SerializerAtRest
    /\ vec_i < Len(ops)
    /\ PtrAt(vec_i) = 0
    /\ dispatched' = Append(dispatched, WriteNoop(vec_i))
    /\ vec_i' = vec_i + 1
    /\ SerializerEnter("write_noop", <<"noop", "data">>, bit_i, 0, 0, 0)

(* lines 441-443: the assert holds, _write_op() is entered with i = 2;    *)
(* i += 3 follows its return                                               *)
write_vector_op_pins ==
    /\ vpc = "loop" /\ SerializerAtRest
    /\ vec_i < Len(ops)
    /\ PtrAt(vec_i) # 0
    /\ vec_i + 3 <= Len(ops)
    /\ dispatched' = Append(dispatched,
            WriteOp(vec_i, PtrAt(vec_i), PtrAt(vec_i + 1), PtrAt(vec_i + 2)))
    /\ vec_i' = vec_i + 3
    /\ SerializerEnter("_write_op", <<"op", "data">>, 2,
                       PtrAt(vec_i), PtrAt(vec_i + 1), PtrAt(vec_i + 2))

(* lines 432-435: _write_vector() is called, where no command was called *)
(* on its own                                                              *)
write_vector_call_pins == bfn = "none" /\ write_vector_call

(* line 441: the assert fails, after the command before it has returned *)
write_vector_assert_pins == SerializerAtRest /\ write_vector_assert

(* line 436: the loop ends, after the last command has returned *)
write_vector_return_pins == SerializerAtRest /\ write_vector_return

(* write_noop() is about to run, after an operation that left data an     *)
(* output and the clock low                                                *)
NoopInit ==
    /\ InitCommon
    /\ HexAtRest
    /\ is_5v = TRUE
    /\ flash = FlashOf("Z", {})
    /\ flash0 = flash
    /\ \E d \in {0, 1} : WireAtRest(d)
    /\ VectorAtRest
    /\ bfn = "write_noop"
    /\ bpc = <<"idle", "">>
    /\ issp_op = 0
    /\ address = 0
    /\ value = 0
    /\ bit_i = 0
    /\ read_value = 0
    /\ tline = 0
    /\ sclk_mode = "OUT"
    /\ xres_mode = "OUT"
    /\ xres = 0
    /\ power = TRUE
    /\ blog = <<>>
    /\ clocked = <<>>

(* one of the three commands is called on its own, or _write_vector() is  *)
(* called with a bytecode                                                  *)
PulseInit == BitInit \/ NoopInit \/ VectorInit

PulseNext ==
    \/ serializer_call
    \/ write_noop_call
    \/ write_noop_sdata_0
    \/ shift_data
    \/ clock_high
    \/ clock_low
    \/ write_op_trail_data
    \/ read_op_init_in
    \/ read_op_sample
    \/ read_op_init_out
    \/ target_present
    \/ write_vector_call_pins
    \/ write_vector_noop_pins
    \/ write_vector_op_pins
    \/ write_vector_assert_pins
    \/ write_vector_return_pins

PulseSpec == PulseInit /\ [][PulseNext]_vars

(***************************************************************************)
(* read_hex_file() of src/intelhex.py: the converter that runs on the      *)
(* computer and turns the .hex file of PSoC Designer into the program     *)
(* data, the security data and the checksum.  One step is one pass of the *)
(* loop over the lines of the file.                                        *)
(*                                                                         *)
(* A line is the sequence of its character codes, ':' is 58, the digits   *)
(* are 48..57 and 65..70, the line ends with a newline (10).               *)
(***************************************************************************)
(* The number of banks of the largest part a file is built for. *)
MaxHexBanks == 2

(* What is wrong or unusual in a file:                                     *)
(*   none              nothing                                             *)
(*   remark            a first line that does not start with ':'          *)
(*   no_eof            the end-of-file record is missing                   *)
(*   record_checksum   the last byte of the last program record is wrong  *)
(*   device_checksum   the checksum record does not match the program data *)
(*   no_checksum       the checksum record and its address are missing    *)
(*   incomplete_bank   the last program record is missing                  *)
(*   other_record      a record of type 2 stands before the end of file   *)
(*   other_address     a data record behind the extended address 0x0030   *)
(*                     stands before the end of file                       *)
WellFormed == {"none", "remark", "no_eof"}

HexFaults == WellFormed \cup {"record_checksum", "device_checksum",
                              "no_checksum", "incomplete_bank",
                              "other_record", "other_address"}

HexFiles == [banks : 1..MaxHexBanks, fault : HexFaults]

RECURSIVE SumOver(_, _, _)
(* sum(s[lo-1:hi]), one half after the other *)
SumOver(s, lo, hi) ==
    IF lo > hi THEN 0
    ELSE IF lo = hi THEN s[lo]
    ELSE LET mid == (lo + hi) \div 2
         IN  SumOver(s, lo, mid) + SumOver(s, mid + 1, hi)

(* sum(s) *)
Sum(s) == SumOver(s, 1, Len(s))

(* the bytes of the file: byte k of program block n, of security record n *)
ProgramByte(n, k) == (n * 7 + k * 3 + 1) % 256

SecurityByte(n, k) == IF k < 32 THEN 170 ELSE 85

ProgramBlock(n) == [k \in 1..64 |-> ProgramByte(n, k - 1)]

SecurityBlock(n) == [k \in 1..64 |-> SecurityByte(n, k - 1)]

NumProgram(f) ==
    f.banks * BLOCKS_PER_BANK - (IF f.fault = "incomplete_bank" THEN 1 ELSE 0)

NumSecurity(f) == (f.banks + 1) \div 2

(* sum(sum(b) % 65536 for b in blocks) of the first n program blocks *)
BlockSums(n) == Sum([k \in 1..n |-> Sum(ProgramBlock(k - 1)) % 65536])

(* the checksum the file gives for the device *)
FileChecksum(f) ==
    (BlockSums(NumProgram(f))
        + (IF f.fault = "device_checksum" THEN 1 ELSE 0)) % 65536

(* A record: length, address (big endian), type, data and the byte that   *)
(* makes the sum of the record 0 mod 256.                                  *)
Record(addr, type, bytes, bad) ==
    LET head == <<Len(bytes), addr \div 256, addr % 256, type>> \o bytes
        check == (256 - (Sum(head) % 256)) % 256
    IN  Append(head, IF bad THEN (check + 1) % 256 ELSE check)

HexDigit(d) == IF d < 10 THEN 48 + d ELSE 55 + d

(* the text of a record: ':', two digits per byte, newline *)
RecordLine(r) ==
    <<58>>
    \o [k \in 1..(2 * Len(r)) |->
            IF k % 2 = 1 THEN HexDigit(r[(k + 1) \div 2] \div 16)
                         ELSE HexDigit(r[k \div 2] % 16)]
    \o <<10>>

(* the records of a file, in the order of the ISSP programming            *)
(* specification: program data, security data behind the extended address *)
(* 0x0010, the checksum behind 0x0020, end of file                         *)
Layout(f) ==
    (IF f.fault = "remark" THEN <<[kind |-> "remark", n |-> 0]>> ELSE <<>>)
    \o [n \in 1..NumProgram(f) |-> [kind |-> "program", n |-> n - 1]]
    \o <<[kind |-> "extended", n |-> EXTENDED_ADDRESS_SECURITY]>>
    \o [n \in 1..NumSecurity(f) |-> [kind |-> "security", n |-> n - 1]]
    \o (IF f.fault = "no_checksum" THEN <<>>
        ELSE <<[kind |-> "extended", n |-> EXTENDED_ADDRESS_CHECKSUM],
               [kind |-> "checksum", n |-> 0]>>)
    \o (IF f.fault = "other_record" THEN <<[kind |-> "other", n |-> 2]>>
        ELSE IF f.fault = "other_address"
        THEN <<[kind |-> "extended", n |-> 48], [kind |-> "other", n |-> 0]>>
        ELSE <<>>)
    \o (IF f.fault = "no_eof" THEN <<>> ELSE <<[kind |-> "eof", n |-> 0]>>)

NumLines(f) == Len(Layout(f))

(* line k of the file, from 1 *)
HexLine(f, k) ==
    LET l == Layout(f)[k]
    IN  CASE l.kind = "remark" -> <<59, 32, 104, 101, 120, 10>>
          [] l.kind = "program" ->
                RecordLine(Record(l.n * 64, BLOCK_PROGRAM_DATA,
                                  ProgramBlock(l.n),
                                  /\ f.fault = "record_checksum"
                                  /\ l.n = NumProgram(f) - 1))
          [] l.kind = "extended" ->
                RecordLine(Record(0, BLOCK_EXTENDED_LINEAR_ADDR,
                                  <<l.n \div 256, l.n % 256>>, FALSE))
          [] l.kind = "security" ->
                RecordLine(Record(l.n * 64, BLOCK_PROGRAM_DATA,
                                  SecurityBlock(l.n), FALSE))
          [] l.kind = "checksum" ->
                RecordLine(Record(0, BLOCK_PROGRAM_DATA,
                                  <<FileChecksum(f) \div 256,
                                    FileChecksum(f) % 256>>, FALSE))
          [] l.kind = "other" -> RecordLine(Record(0, l.n, <<0, 0>>, FALSE))
          [] l.kind = "eof" -> RecordLine(Record(0, BLOCK_EOF, <<>>, FALSE))

(***************************************************************************)
(* The parts of Python the loop uses.                                      *)
(***************************************************************************)
Whitespace == {9, 10, 11, 12, 13, 32}

RECURSIVE strip(_)
(* str.strip() *)
strip(t) ==
    IF t = <<>> THEN t
    ELSE IF t[1] \in Whitespace THEN strip(Tail(t))
    ELSE IF t[Len(t)] \in Whitespace THEN strip(SubSeq(t, 1, Len(t) - 1))
    ELSE t

IsHexDigit(c) == c \in (48..57) \cup (65..70) \cup (97..102)

Nibble(c) == IF c \in 48..57 THEN c - 48
             ELSE IF c \in 65..70 THEN c - 55
             ELSE c - 87

(* bytes.fromhex(t) raises ValueError unless t is pairs of hex digits *)
fromhex_ok(t) == Len(t) % 2 = 0 /\ \A k \in 1..Len(t) : IsHexDigit(t[k])

fromhex(t) ==
    [k \in 1..(Len(t) \div 2) |-> 16 * Nibble(t[2 * k - 1]) + Nibble(t[2 * k])]

RECURSIVE from_bytes(_)
(* int.from_bytes(b, 'big') *)
from_bytes(b) ==
    IF b = <<>> THEN 0
    ELSE 256 * from_bytes(SubSeq(b, 1, Len(b) - 1)) + b[Len(b)]

(* the length of the file main() writes with writelines(): the records    *)
(* of the list, one after the other                                        *)
TotalLen(list) == Sum([k \in 1..Len(list) |-> Len(list[k])])

(* sum(sum(b) % 65536 for b in blocks), line 118 *)
ListSums(list) == Sum([k \in 1..Len(list) |-> Sum(list[k]) % 65536])

(***************************************************************************)
(* The loop (lines 64-113).                                                *)
(***************************************************************************)
line == HexLine(hexfile, hex_n + 1)

(* line 68 *)
line_text == strip(Tail(line))

line_bytes == fromhex(line_text)

(* lines 71-74 *)
block_len == line_bytes[1]

rec_address == from_bytes(SubSeq(line_bytes, 2, 3))

record_type == line_bytes[4]

block_data == SubSeq(line_bytes, 5, Len(line_bytes) - 1)

(* the loop has a line to read *)
AtLine == hpc = "loop" /\ hex_n < NumLines(hexfile)

(* the line starts with ':' and got past lines 68-76 *)
AtRecord ==
    /\ AtLine
    /\ line[1] = 58
    /\ fromhex_ok(line_text)
    /\ Sum(line_bytes) % 256 = 0
    /\ block_len = Len(block_data)

HexStep(p, n) ==
    /\ hpc' = p
    /\ hex_n' = n
    /\ UNCHANGED <<hexfile, sessionVars, wireVars, vecVars, bitVars>>

HexRaise(msg) ==
    /\ HexStep("ValueError", hex_n)
    /\ hex_error' = msg

HexLocals == <<blocks, security, device_checksum, extended_address,
               next_block_num, num_banks>>

(* lines 58-63 *)
read_hex_file_call ==
    /\ hpc = "idle"
    /\ hexfile # NoFile
    /\ HexStep("loop", 0)
    /\ blocks' = <<>>
    /\ security' = <<>>
    /\ device_checksum' = <<>>
    /\ extended_address' = 0
    /\ next_block_num' = 0
    /\ num_banks' = None
    /\ UNCHANGED hex_error

(* lines 65-66: a line that does not start with ':' is skipped *)
hex_skip_line ==
    /\ AtLine
    /\ line[1] # 58
    /\ HexStep("loop", hex_n + 1)
    /\ UNCHANGED <<HexLocals, hex_error>>

(* lines 68-76: the record is not hex digits, its bytes do not add up to  *)
(* 0 mod 256, or its length byte is not the length of its data             *)
hex_bad_record ==
    /\ AtLine
    /\ line[1] = 58
    /\ ~AtRecord
    /\ HexRaise(IF ~fromhex_ok(line_text) THEN "non-hexadecimal number"
                ELSE IF Sum(line_bytes) % 256 # 0 THEN "Incorrect checksum"
                ELSE "Incorrect data length")
    /\ UNCHANGED HexLocals

(* lines 78-79: the end-of-file record ends the loop *)
hex_eof ==
    /\ AtRecord
    /\ record_type = BLOCK_EOF
    /\ HexStep("after", hex_n + 1)
    /\ UNCHANGED <<HexLocals, hex_error>>

(* the file has no more lines *)
hex_exhausted ==
    /\ hpc = "loop"
    /\ hex_n = NumLines(hexfile)
    /\ HexStep("after", hex_n)
    /\ UNCHANGED <<HexLocals, hex_error>>

(* lines 80-83 *)
hex_extended_address ==
    /\ AtRecord
    /\ record_type = BLOCK_EXTENDED_LINEAR_ADDR
    /\ IF block_len # 2
       THEN /\ HexRaise("Extended address length not 2 bytes")
            /\ UNCHANGED HexLocals
       ELSE /\ HexStep("loop", hex_n + 1)
            /\ extended_address' = from_bytes(block_data)
            /\ UNCHANGED <<blocks, security, device_checksum, next_block_num,
                           num_banks, hex_error>>

(* a record of a type the loop has no branch for *)
hex_other_record ==
    /\ AtRecord
    /\ record_type \notin {BLOCK_EOF, BLOCK_EXTENDED_LINEAR_ADDR,
                           BLOCK_PROGRAM_DATA}
    /\ HexStep("loop", hex_n + 1)
    /\ UNCHANGED <<HexLocals, hex_error>>

(* lines 84-93: a data record while the extended address is 0 *)
hex_program_data ==
    /\ AtRecord
    /\ record_type = BLOCK_PROGRAM_DATA
    /\ extended_address = 0
    /\ IF num_banks # None
       THEN /\ HexRaise("Unexpected extra program data block")
            /\ UNCHANGED HexLocals
       ELSE IF block_len # 64
       THEN /\ HexRaise("Program data block not 64 bytes long")
            /\ UNCHANGED HexLocals
       ELSE IF rec_address # next_block_num * 64
       THEN /\ HexRaise("Unexpected block address")
            /\ UNCHANGED HexLocals
       ELSE /\ HexStep("loop", hex_n + 1)
            /\ blocks' = Append(blocks, block_data)
            /\ next_block_num' = next_block_num + 1
            /\ UNCHANGED <<security, device_checksum, extended_address,
                           num_banks, hex_error>>

(* lines 95-98: the first data record behind an extended address tells    *)
(* the number of banks                                                     *)
BanksNow == IF num_banks = None THEN Len(blocks) \div BLOCKS_PER_BANK
            ELSE num_banks

IncompleteBanks == num_banks = None /\ Len(blocks) % BLOCKS_PER_BANK # 0

(* lines 95-107 with both halves of every security record kept *)
hex_security_whole ==
    /\ AtRecord
    /\ record_type = BLOCK_PROGRAM_DATA
    /\ extended_address = EXTENDED_ADDRESS_SECURITY
    /\ IF IncompleteBanks
       THEN /\ HexRaise("Program data has incomplete banks")
            /\ UNCHANGED HexLocals
       ELSE /\ num_banks' = BanksNow
            /\ UNCHANGED <<blocks, device_checksum, extended_address,
                           next_block_num>>
            /\ IF block_len # 64
               THEN /\ HexRaise("Security data block not 64 bytes long")
                    /\ UNCHANGED security
               ELSE IF BanksNow - Len(security) = 0
               THEN /\ HexRaise("Too many security data records")
                    /\ UNCHANGED security
               ELSE /\ HexStep("loop", hex_n + 1)
                    /\ security' = security \o <<SubSeq(block_data, 1, 32),
                                                 SubSeq(block_data, 33, 64)>>
                    /\ UNCHANGED hex_error

(* lines 95-107: a data record while the extended address is 0x0010; the  *)
(* second half of the record is kept only if a bank is left for it         *)
hex_security ==
    /\ AtRecord
    /\ record_type = BLOCK_PROGRAM_DATA
    /\ extended_address = EXTENDED_ADDRESS_SECURITY
    /\ IF IncompleteBanks
       THEN /\ HexRaise("Program data has incomplete banks")
            /\ UNCHANGED HexLocals
       ELSE /\ num_banks' = BanksNow
            /\ UNCHANGED <<blocks, device_checksum, extended_address,
                           next_block_num>>
            /\ IF block_len # 64
               THEN /\ HexRaise("Security data block not 64 bytes long")
                    /\ UNCHANGED security
               ELSE IF BanksNow - Len(security) = 0
               THEN /\ HexRaise("Too many security data records")
                    /\ UNCHANGED security
               ELSE /\ HexStep("loop", hex_n + 1)
                    /\ security' =
                         IF BanksNow - Len(security) > 1
                         THEN security \o <<SubSeq(block_data, 1, 32),
                                            SubSeq(block_data, 33, 64)>>
                         ELSE Append(security, SubSeq(block_data, 1, 32))
                    /\ UNCHANGED hex_error

(* lines 95-98 and 108-113: a data record while the extended address is   *)
(* 0x0020                                                                   *)
hex_checksum ==
    /\ AtRecord
    /\ record_type = BLOCK_PROGRAM_DATA
    /\ extended_address = EXTENDED_ADDRESS_CHECKSUM
    /\ IF IncompleteBanks
       THEN /\ HexRaise("Program data has incomplete banks")
            /\ UNCHANGED HexLocals
       ELSE /\ num_banks' = BanksNow
            /\ UNCHANGED <<blocks, security, extended_address,
                           next_block_num>>
            /\ IF Len(security) # BanksNow
               THEN /\ HexRaise("Not enough security data records")
                    /\ UNCHANGED device_checksum
               ELSE IF block_len # 2
               THEN /\ HexRaise("Checksum data block not 2 bytes long")
                    /\ UNCHANGED device_checksum
               ELSE /\ HexStep("loop", hex_n + 1)
                    /\ device_checksum' = block_data
                    /\ UNCHANGED hex_error

(* lines 95-98: a data record behind any other extended address *)
hex_other_address ==
    /\ AtRecord
    /\ record_type = BLOCK_PROGRAM_DATA
    /\ extended_address \notin {0, EXTENDED_ADDRESS_SECURITY,
                                EXTENDED_ADDRESS_CHECKSUM}
    /\ IF IncompleteBanks
       THEN /\ HexRaise("Program data has incomplete banks")
            /\ UNCHANGED HexLocals
       ELSE /\ HexStep("loop", hex_n + 1)
            /\ num_banks' = BanksNow
            /\ UNCHANGED <<blocks, security, device_checksum,
                           extended_address, next_block_num, hex_error>>

(* lines 115-121 *)
read_hex_file_return ==
    /\ hpc = "after"
    /\ UNCHANGED HexLocals
    /\ IF device_checksum = <<>>
       THEN HexRaise("Missing checksum data")
       ELSE IF from_bytes(device_checksum)
                 # (ListSums(blocks) % 65536)
       THEN HexRaise("Incorrect checksum")
       ELSE /\ HexStep("returned", hex_n)
            /\ UNCHANGED hex_error

(* read_hex_file() is called with any of HexFiles *)
HexInit ==
    /\ InitCommon
    /\ is_5v = TRUE
    /\ flash = FlashOf("Z", {})
    /\ flash0 = flash
    /\ WireAtRest(0)
    /\ VectorAtRest
    /\ BitsAtRest
    /\ hexfile \in HexFiles
    /\ HexIdle

HexNext ==
    \/ read_hex_file_call
    \/ hex_skip_line
    \/ hex_bad_record
    \/ hex_eof
    \/ hex_exhausted
    \/ hex_extended_address
    \/ hex_other_record
    \/ hex_program_data
    \/ hex_security
    \/ hex_checksum
    \/ hex_other_address
    \/ read_hex_file_return

HexSpec == HexInit /\ [][HexNext]_vars

(***************************************************************************)
(* The magic bits: reset_send_magic() and power_cycle_send_magic(),        *)
(* src/issp.py lines 214-336, one pin access per step.  Both functions    *)
(* end with the same statements (lines 242-273 and 305-336); bpc is       *)
(* <<phase, statement>>, the phases "bit1" .. "bit7" are the first seven  *)
(* clock pulses and "zeros" is the loop of line 270 (line 333).            *)
(***************************************************************************)
MagicFns == {"reset_send_magic", "power_cycle_send_magic"}

(* while i < 15, lines 270 and 333 *)
ZERO_BITS == 15

MagicPhases == {"bit1", "bit2", "bit3", "bit4", "bit5", "bit6", "bit7",
                "zeros"}

(* the phases that start with a write to sdata, and what they write:      *)
(* lines 242, 249, 256, 260, 264, 268 (305, 312, 319, 323, 327, 331)       *)
SdataWrite(ph) ==
    CASE ph \in {"bit1", "bit5", "bit7"} -> 1
      [] ph \in {"bit3", "bit6", "zeros"} -> 0

NextPhase(ph) ==
    CASE ph = "bit1" -> "bit2"
      [] ph = "bit2" -> "bit3"
      [] ph = "bit3" -> "bit4"
      [] ph = "bit4" -> "bit5"
      [] ph = "bit5" -> "bit6"
      [] ph = "bit6" -> "bit7"
      [] ph = "bit7" -> "zeros"

(* the first statement of phase ph *)
StartOf(ph) == IF ph \in {"bit2", "bit4"} THEN <<ph, "high">>
               ELSE <<ph, "data">>

(* the level of the clock line, -1 while nothing drives it *)
ClockLine == IF sclk_mode = "OUT" THEN sclk ELSE -1

(* a step of the function: it goes on at p with loop variable k, having   *)
(* done ev                                                                 *)
MagicStep(p, k, ev) ==
    /\ bfn \in MagicFns
    /\ bpc' = p
    /\ bit_i' = k
    /\ blog' = Append(blog, ev)
    /\ UNCHANGED <<bfn, issp_op, address, value, read_value, tline>>
    /\ UNCHANGED <<sessionVars, waitVars, vecVars, hexVars>>

(* line 225: init_pins() (lines 135-137), and gc.collect() *)
reset_init_pins ==
    /\ bfn = "reset_send_magic"
    /\ bpc = <<"idle", "">>
    /\ sdata_mode' = "OUT"
    /\ sclk_mode' = "OUT"
    /\ xres_mode' = "OUT"
    /\ MagicStep(<<"setup", "sdata">>, bit_i, "init_pins")
    /\ UNCHANGED <<sdata_out, sclk, xres, power, clocked>>

(* line 228: sdata(0) *)
reset_sdata_0 ==
    /\ bpc = <<"setup", "sdata">>
    /\ sdata_out' = 0
    /\ MagicStep(<<"setup", "sclk">>, bit_i, "data0")
    /\ UNCHANGED <<sdata_mode, sclk, sclk_mode, xres_mode, xres, power, clocked>>

(* line 229: sclk(0) *)
reset_sclk_0 ==
    /\ bpc = <<"setup", "sclk">>
    /\ sclk' = 0
    /\ MagicStep(<<"xres", "low1">>, bit_i, "low")
    /\ UNCHANGED <<sdata_mode, sdata_out, sclk_mode, xres_mode, xres, power,
                   clocked>>

(* lines 230-240: xres(0), xres(1), xres(0), each followed by a busy loop *)
reset_xres ==
    /\ bfn = "reset_send_magic"
    /\ bpc[1] = "xres"
    /\ CASE bpc[2] = "low1" ->
                /\ xres' = 0
                /\ MagicStep(<<"xres", "high">>, bit_i, "xres0")
         [] bpc[2] = "high" ->
                /\ xres' = 1
                /\ MagicStep(<<"xres", "low2">>, bit_i, "xres1")
         [] bpc[2] = "low2" ->
                /\ xres' = 0
                /\ MagicStep(StartOf("bit1"), bit_i, "xres0")
    /\ UNCHANGED <<sdata_mode, sdata_out, sclk, sclk_mode, xres_mode, power,
                   clocked>>

(* lines 288-290: power_off() (lines 162-163: deinit_pins(),              *)
(* power_enable.off()), gc.collect() and the delay                         *)
power_cycle_power_off ==
    /\ bfn = "power_cycle_send_magic"
    /\ bpc = <<"idle", "">>
    /\ sdata_mode' = "IN"
    /\ sclk_mode' = "IN"
    /\ xres_mode' = "IN"
    /\ power' = FALSE
    /\ MagicStep(<<"power", "xres_init">>, bit_i, "power_off")
    /\ UNCHANGED <<sdata_out, sclk, xres, clocked>>

(* lines 292-293: xres.init(OUT_PP), xres(0) *)
power_cycle_xres ==
    /\ bfn = "power_cycle_send_magic"
    /\ bpc[1] = "power"
    /\ bpc[2] \in {"xres_init", "xres"}
    /\ CASE bpc[2] = "xres_init" ->
                /\ xres_mode' = "OUT"
                /\ MagicStep(<<"power", "xres">>, bit_i, "xres_out")
                /\ UNCHANGED xres
         [] bpc[2] = "xres" ->
                /\ xres' = 0
                /\ MagicStep(<<"power", "on">>, bit_i, "xres0")
                /\ UNCHANGED xres_mode
    /\ UNCHANGED <<sdata_mode, sdata_out, sclk, sclk_mode, power, clocked>>

(* lines 294-295: power_enable.on() and the delay *)
power_cycle_power_on ==
    /\ bpc = <<"power", "on">>
    /\ power' = TRUE
    /\ MagicStep(<<"power", "pulse">>, bit_i, "power_on")
    /\ UNCHANGED <<sdata_mode, sdata_out, sclk, sclk_mode, xres_mode, xres,
                   clocked>>

(* lines 296-300: machine.time_pulse_us(sdata, 1, 100000) returns the     *)
(* length of the target's pulse (0 here), -2 when the line did not go     *)
(* high in time or -1 when it did not go low again in time                *)
power_cycle_time_pulse ==
    /\ bpc = <<"power", "pulse">>
    /\ \E ret \in {0, -1, -2} :
        CASE ret = -2 ->
                MagicStep(<<"RuntimeError",
                            "Timed out waiting for SDATA to go high">>,
                          bit_i, "timeout")
          [] ret = -1 ->
                MagicStep(<<"RuntimeError",
                            "Timed out waiting for SDATA to go low">>,
                          bit_i, "timeout")
          [] ret = 0 ->
                MagicStep(<<"power", "sdata_init">>, bit_i, "detect")
    /\ UNCHANGED <<sdata_mode, sdata_out, sclk, sclk_mode, xres_mode, xres,
                   power, clocked>>

(* lines 302-303: sdata.init(OUT_PP), sclk.init(OUT_PP) *)
power_cycle_init_out ==
    /\ bfn = "power_cycle_send_magic"
    /\ bpc[1] = "power"
    /\ bpc[2] \in {"sdata_init", "sclk_init"}
    /\ CASE bpc[2] = "sdata_init" ->
                /\ sdata_mode' = "OUT"
                /\ MagicStep(<<"power", "sclk_init">>, bit_i, "sdata_out")
                /\ UNCHANGED sclk_mode
         [] bpc[2] = "sclk_init" ->
                /\ sclk_mode' = "OUT"
                /\ MagicStep(StartOf("bit1"), bit_i, "sclk_out")
                /\ UNCHANGED sdata_mode
    /\ UNCHANGED <<sdata_out, sclk, xres_mode, xres, power, clocked>>

(* magic_data that writes the levels of the pattern inverted *)
magic_data_inverted ==
    /\ bpc[1] \in MagicPhases /\ bpc[2] = "data"
    /\ sdata_out' = 1 - SdataWrite(bpc[1])
    /\ MagicStep(<<bpc[1], "high">>, IF bpc[1] = "zeros" THEN 0 ELSE bit_i,
                 DataEv(1 - SdataWrite(bpc[1])))
    /\ UNCHANGED <<sdata_mode, sclk, sclk_mode, xres_mode, xres, power, clocked>>

(* lines 242, 249, 256, 260, 264 and 268-269 (305 .. 332): sdata(b), and  *)
(* i = 0 before the loop                                                   *)
magic_data ==
    /\ bpc[1] \in MagicPhases /\ bpc[2] = "data"
    /\ sdata_out' = SdataWrite(bpc[1])
    /\ MagicStep(<<bpc[1], "high">>, IF bpc[1] = "zeros" THEN 0 ELSE bit_i,
                 DataEv(SdataWrite(bpc[1])))
    /\ UNCHANGED <<sdata_mode, sclk, sclk_mode, xres_mode, xres, power, clocked>>

(* sclk(1): the clock line rises if the pin drives it and it was low; the *)
(* target then sees the level of the data line                             *)
magic_clock_high ==
    /\ bpc[1] \in MagicPhases /\ bpc[2] = "high"
    /\ sclk' = 1
    /\ clocked' = IF ClockLine = 0 THEN Append(clocked, BitLine) ELSE clocked
    /\ MagicStep(<<bpc[1], "low">>, bit_i, "high")
    /\ UNCHANGED <<sdata_mode, sdata_out, sclk_mode, xres_mode, xres, power>>

(* sclk(0), and in the loop i += 1 and the test i < 15 *)
magic_clock_low ==
    /\ bpc[1] \in MagicPhases /\ bpc[2] = "low"
    /\ sclk' = 0
    /\ IF bpc[1] # "zeros"
       THEN MagicStep(StartOf(NextPhase(bpc[1])), bit_i, "low")
       ELSE IF bit_i + 1 < ZERO_BITS
       THEN MagicStep(<<"zeros", "high">>, bit_i + 1, "low")
       ELSE MagicStep(<<"returned", "">>, bit_i + 1, "low")
    /\ UNCHANGED <<sdata_mode, sdata_out, sclk_mode, xres_mode, xres, power,
                   clocked>>

(* One of the two functions is called.  The pins are in the mode the call *)
(* before left them in (outputs after init_pins(), high-Z after           *)
(* deinit_pins() or after the import of the module), the data pin's       *)
(* output value is what the last operation wrote, the power is on or off. *)
(* The timer of wait_and_poll() is idle, so that the clock pin's output   *)
(* value is the 0 every function of the module leaves; the reset pin's is *)
(* 0, the only value written last.                                         *)
MagicInit ==
    /\ InitCommon
    /\ HexAtRest
    /\ VectorAtRest
    /\ is_5v = TRUE
    /\ flash = FlashOf("Z", {})
    /\ flash0 = flash
    /\ sdata_mode \in {"IN", "OUT"}
    /\ sdata_out \in {0, 1}
    /\ sclk = 0
    /\ tstate = "idle"
    /\ timer_cb = "none"
    /\ wpc = "idle"
    /\ cycles = 0
    /\ waited = 0
    /\ wlog = <<>>
    /\ mainPulses = 0
    /\ trailPulses = 0
    /\ trailRise = FALSE
    /\ lateCb = FALSE
    /\ bfn \in MagicFns
    /\ bpc = <<"idle", "">>
    /\ issp_op = 0
    /\ address = 0
    /\ value = 0
    /\ bit_i = 0
    /\ read_value = 0
    /\ tline \in {0, 1}
    /\ sclk_mode \in {"IN", "OUT"}
    /\ xres_mode \in {"IN", "OUT"}
    /\ xres = 0
    /\ power \in BOOLEAN
    /\ blog = <<>>
    /\ clocked = <<>>

MagicNext ==
    \/ reset_init_pins
    \/ reset_sdata_0
    \/ reset_sclk_0
    \/ reset_xres
    \/ power_cycle_power_off
    \/ power_cycle_xres
    \/ power_cycle_power_on
    \/ power_cycle_time_pulse
    \/ power_cycle_init_out
    \/ magic_data
    \/ magic_clock_high
    \/ magic_clock_low

MagicSpec == MagicInit /\ [][MagicNext]_vars

(***************************************************************************)
(* What the call that runs, or the call that ran last, is.                *)
(***************************************************************************)
(* function f is running, or was the last to run and got past its size    *)
(* check                                                                   *)
InCall(f) ==
    \/ call = f
    \/ call = "none" /\ result.fn = f /\ result.kind # "InvalidImageSize"

Returned(f) == call = "none" /\ result.fn = f /\ result.kind = "ok"

Raised(f, kind) == call = "none" /\ result.fn = f /\ result.kind = kind

(***************************************************************************)
(* C1.  The operations of program(data).                                   *)
(***************************************************************************)
OpsPerBlock == BYTE_PER_BLOCK + 2

OpsPerBank == 1 + BLOCK_PER_BANK * OpsPerBlock

(* the n-th operation (from 1) of the sequence C1 describes: bulkErase,   *)
(* then per bank setBank and per block the 64 writes to 0x80|j, setBlock  *)
(* and programBlock                                                        *)
ProgramOpAt(d, n) ==
    IF n = 1 THEN Op("bulk_erase", -1, -1)
    ELSE LET b == (n - 2) \div OpsPerBank
             r == (n - 2) % OpsPerBank
         IN  IF r = 0 THEN Op("set_bank_num", -1, b)
             ELSE LET k == (r - 1) \div OpsPerBlock
                      j == (r - 1) % OpsPerBlock
                  IN  IF j < BYTE_PER_BLOCK
                      THEN Op("write_memory", 128 + j,
                              DataAt(d, (b * BLOCK_PER_BANK + k) * BYTE_PER_BLOCK + j))
                      ELSE IF j = BYTE_PER_BLOCK
                      THEN Op("set_block_num", 250, k)
                      ELSE Op("program_block", -1, -1)

ProgramOpTotal(d) == 1 + TotalBanks(d) * OpsPerBank

(* C1: every operation program(image) issues is the operation the         *)
(* sequence has at that place (bulkErase first and once, then per bank in *)
(* increasing order setBank(b), and per block in increasing order the     *)
(* BYTE_PER_BLOCK writes of the block's image bytes to 0x80|j, then       *)
(* setBlock(k), then programBlock), and a program that returns has issued *)
(* the whole sequence, having written every image byte once.              *)
C1_ProgramSequence ==
    InCall("program") =>
        /\ opCount <= ProgramOpTotal(data)
        /\ opCount >= 1 => lastOp = ProgramOpAt(data, opCount)
        /\ Returned("program") =>
            /\ opCount = ProgramOpTotal(data)
            /\ bufWrites = DataLen(data)
            /\ Len(out) = TotalBanks(data) * BLOCK_PER_BANK

(* program of a two-bank image has returned *)
C1_Witness ==
    /\ Returned("program")
    /\ TotalBanks(data) = 2
    /\ opCount = 1 + 2 * (1 + BLOCK_PER_BANK * (BYTE_PER_BLOCK + 2))
    /\ lastOp.op = "program_block"

(***************************************************************************)
(* C2.  verify(data) against the target's flash.                           *)
(***************************************************************************)
(* the first position at which flash f and image d differ, or -1 when    *)
(* they agree over the image                                               *)
FirstDiff(f, d) ==
    LET D == {k \in 0..(DataLen(d) - 1) : f[k] # DataAt(d, k)}
    IN  IF D = {} THEN -1 ELSE CHOOSE k \in D : \A m \in D : k <= m

BankOf(k) == k \div (BYTE_PER_BLOCK * BLOCK_PER_BANK)

BlockOf(k) == (k \div BYTE_PER_BLOCK) % BLOCK_PER_BANK

ByteOf(k) == k % BYTE_PER_BLOCK

(* the number of operations verify has issued when it has read the byte   *)
(* at position k of the image: per bank setBank, per block setBlock,      *)
(* verify-setup and the reads                                              *)
VerifyOpsUpTo(k) ==
    BankOf(k) * (1 + BLOCK_PER_BANK * (BYTE_PER_BLOCK + 2)) + 1
    + BlockOf(k) * (BYTE_PER_BLOCK + 2) + 2
    + ByteOf(k) + 1

(* C2: against a target that answers without fault, verify(image)         *)
(* returns, with one '-' per block, when the flash equals the image; when *)
(* the flash differs it raises VerifyMismatch with the bank, block and    *)
(* byte of the first differing byte in image order, and the read of that  *)
(* byte is the last operation it issues.                                  *)
C2_VerifyFirstMismatch ==
    (InCall("verify") /\ nfaults = 0) =>
        LET k == FirstDiff(flash, data) IN
        /\ flash = flash0
        /\ call = "none" => result.kind \in {"ok", "VerifyMismatch"}
        /\ Returned("verify") =>
            /\ k = -1
            /\ Len(out) = TotalBanks(data) * BLOCK_PER_BANK
        /\ k = -1 => ~Raised("verify", "VerifyMismatch")
        /\ k # -1 =>
            /\ opCount <= VerifyOpsUpTo(k)
            /\ ~Returned("verify")
            /\ Raised("verify", "VerifyMismatch") =>
                /\ result.bank = BankOf(k)
                /\ result.block = BlockOf(k)
                /\ result.byte = ByteOf(k)
                /\ opCount = VerifyOpsUpTo(k)
                /\ lastOp = Op("read_memory", 128 + ByteOf(k), flash[k])

(* the flash differs from the image in one byte, bank 1 block 5 byte 10,  *)
(* and verify has raised VerifyMismatch{1, 5, 10}                         *)
C2_Witness ==
    /\ Raised("verify", "VerifyMismatch")
    /\ nfaults = 0
    /\ flash = FlashOf("A", {FlashPos(1, 5, 10)})
    /\ data = [len |-> 2 * BankBytes, pat |-> "A"]
    /\ result.bank = 1 /\ result.block = 5 /\ result.byte = 10

(***************************************************************************)
(* C3, C4, C6.  patch(data) against the target's flash.                    *)
(***************************************************************************)
(* the blocks of image d, numbered through the banks, in which flash f    *)
(* differs from d                                                          *)
DiffBlocks(f, d) ==
    {b \in 0..(TotalBanks(d) * BLOCK_PER_BANK - 1) :
        \E j \in 0..(BYTE_PER_BLOCK - 1) :
            f[b * BYTE_PER_BLOCK + j] # DataAt(d, b * BYTE_PER_BLOCK + j)}

Increasing(s) == \A m \in 1..(Len(s) - 1) : s[m] < s[m + 1]

Range(s) == {s[m] : m \in 1..Len(s)}

(* C3: when the flash equals the image and the target answers without    *)
(* fault, patch(image) issues no erase-block and no program-block, writes *)
(* nothing to the block buffer, leaves the flash as it was, and returns   *)
(* having marked every block '-'.                                         *)
C3_PatchIdempotent ==
    (InCall("patch") /\ nfaults = 0 /\ FirstDiff(flash0, data) = -1) =>
        /\ lastOp.op \notin {"erase_block", "program_block", "write_memory"}
        /\ eraseLog = <<>> /\ progLog = <<>>
        /\ bufWrites = 0
        /\ flash = flash0
        /\ \A m \in 1..Len(out) : out[m] = "-"
        /\ call = "none" =>
            /\ Returned("patch")
            /\ Len(out) = TotalBanks(data) * BLOCK_PER_BANK

(* patch of a two-bank image has returned from a target that held it *)
C3_Witness ==
    /\ Returned("patch")
    /\ nfaults = 0
    /\ TotalBanks(data) = 2
    /\ FirstDiff(flash0, data) = -1
    /\ Len(out) = 2 * BLOCK_PER_BANK
    /\ opCount = 2 * (1 + BLOCK_PER_BANK * (BYTE_PER_BLOCK + 3))

(* C4: against a target that answers without fault, patch(image') erases  *)
(* and programs only blocks in which the flash and image' differ, in      *)
(* increasing order and so each at most once, and when it returns it has  *)
(* erased and programmed every one of them: each exactly once, and no     *)
(* block in which they are identical.                                      *)
C4_PatchExactBlocks ==
    (InCall("patch") /\ nfaults = 0) =>
        /\ Increasing(eraseLog) /\ Increasing(progLog)
        /\ Range(eraseLog) \subseteq DiffBlocks(flash0, data)
        /\ Range(progLog) \subseteq Range(eraseLog)
        /\ Len(eraseLog) - Len(progLog) \in {0, 1}
        /\ lastOp.op = "erase_block" => Len(eraseLog) = Len(progLog) + 1
        /\ Returned("patch") =>
            /\ Range(eraseLog) = DiffBlocks(flash0, data)
            /\ progLog = eraseLog

(* the image differs from the flash only in bank 0 block 0, and patch has *)
(* returned having erased and programmed block 0 alone                    *)
C4_Witness ==
    /\ Returned("patch")
    /\ nfaults = 0
    /\ flash0 = FlashOf("A", {})
    /\ data = [len |-> 2 * BankBytes, pat |-> "B"]
    /\ DiffBlocks(flash0, data) = {0}
    /\ eraseLog = <<0>> /\ progLog = <<0>>
    /\ out = <<"+", "-", "-", "-", "-", "-", "-", "-", "-", "-", "-", "-">>

(* C6: when patch(image) returns from a target that answered without     *)
(* fault, the flash equals the image byte for byte over the banks of the  *)
(* image, whatever it held before, and holds what it held in the banks    *)
(* past the image.                                                         *)
C6_PatchResult ==
    (Returned("patch") /\ nfaults = 0) =>
        \A k \in 0..(FlashSize - 1) :
            flash[k] = IF k < DataLen(data) THEN DataAt(data, k) ELSE flash0[k]

(* patch has returned from a target that differed from the image in every *)
(* block                                                                   *)
C6_Witness ==
    /\ Returned("patch")
    /\ nfaults = 0
    /\ TotalBanks(data) = 2
    /\ Cardinality(DiffBlocks(flash0, data)) = 2 * BLOCK_PER_BANK
    /\ Len(progLog) = 2 * BLOCK_PER_BANK
    /\ flash # flash0

(***************************************************************************)
(* C5.  The return code in patch(data).                                    *)
(***************************************************************************)
StageOf(vec) ==
    CASE vec = "verify_setup"  -> "read"
      [] vec = "erase_block"   -> "erase"
      [] vec = "program_block" -> "program"
      [] OTHER                 -> "?"

IsStatusRead(op) == op.op = "read_memory" /\ op.a = 248

(* C5: in patch, the operation issued next after a verify-setup, an       *)
(* erase-block or a program-block is the read of the return code at 0xF8, *)
(* and patch does not return with one unread; a return code that is not   *)
(* zero ends patch at once with ProtocolFault, tagged with the stage of   *)
(* the vector before it and with the bank and block, so that no operation *)
(* follows it (no erase after a failed read, no program after a failed    *)
(* erase).                                                                 *)
C5_PatchStatusChecks ==
    InCall("patch") =>
        /\ (opCount >= 2 /\ prevOp.op \in VectorOps) => IsStatusRead(lastOp)
        /\ IsStatusRead(lastOp) => prevOp.op \in {"verify_setup", "erase_block", "program_block"}
        /\ Returned("patch") => lastOp.op \notin VectorOps
        /\ (IsStatusRead(lastOp) /\ lastOp.v # 0) =>
            /\ Raised("patch", "ProtocolFault")
            /\ result.stage = StageOf(prevOp.op)
            /\ result.code = lastOp.v
            /\ prevOp.op = "erase_block" =>
                  (Len(eraseLog) = Len(progLog) /\ lastOp.op # "program_block")
        /\ Raised("patch", "ProtocolFault") =>
            /\ IsStatusRead(lastOp) /\ lastOp.v # 0
            /\ result.bank * BLOCK_PER_BANK + result.block = bankSel * BLOCK_PER_BANK + mem[BLOCK_ADDR]
        /\ (call = "patch" /\ pc \in {"erase_set_block", "erase_block"}) => mem[STATUS_ADDR] = 0
        /\ (call = "patch" /\ pc \in {"write", "program_set_block", "program_block"}) =>
              (mem[STATUS_ADDR] = 0 /\ Len(eraseLog) = Len(progLog) + 1)

(* patch has stopped on the return code of an erase-block *)
C5_Witness ==
    /\ Raised("patch", "ProtocolFault")
    /\ result.stage = "erase"
    /\ result.code = 1
    /\ prevOp.op = "erase_block"
    /\ IsStatusRead(lastOp)

(***************************************************************************)
(* C7.  The size check of program, verify and patch.                       *)
(***************************************************************************)
ImageCalls == {"program", "verify", "patch"}

(* C7: a call of program, verify or patch with an image whose length is   *)
(* no multiple of a bank ends with InvalidImageSize having issued no      *)
(* operation, printed no marker and left the target as it was; no such    *)
(* image gets past the check.                                              *)
C7_InvalidImageSize ==
    /\ \A f \in ImageCalls :
        /\ InCall(f) => DataLen(data) % (BYTE_PER_BLOCK * BLOCK_PER_BANK) = 0
        /\ (call = "none" /\ result.fn = f
                /\ DataLen(data) % (BYTE_PER_BLOCK * BLOCK_PER_BANK) # 0) =>
              /\ result.kind = "InvalidImageSize"
    /\ result.kind = "InvalidImageSize" =>
        /\ result.fn \in ImageCalls
        /\ call = "none"
        /\ opCount = 0 /\ lastOp = NoOp
        /\ flash = flash0
        /\ eraseLog = <<>> /\ progLog = <<>> /\ bufWrites = 0
        /\ out = <<>>

(* program has refused an image one byte longer than a bank *)
C7_Witness ==
    /\ Raised("program", "InvalidImageSize")
    /\ DataLen(data) = BankBytes + 1
    /\ opCount = 0
(***************************************************************************)
(* C8.  The handshake.                                                     *)
(***************************************************************************)
Handshakes == {"reset", "power_cycle_init"}

(* the steps of a handshake that runs to its end *)
HandshakeOrder ==
    <<"magic", "init_1", "wait_and_poll", "init_2", "wait_and_poll",
      IF is_5v THEN "init_3_5v" ELSE "init_3_3v">>

IsPrefix(s, t) == Len(s) <= Len(t) /\ SubSeq(t, 1, Len(s)) = s

(* a handshake that stopped at a wait_and_poll() that timed out: the      *)
(* steps up to that one, in order, and none after it                      *)
StoppedAtWait(t) ==
    /\ Len(t) \in {3, 5}
    /\ IsPrefix(SubSeq(t, 1, Len(t) - 1), HandshakeOrder)
    /\ t[Len(t)] = "wait_and_poll_timeout"

(* C8: on both entry paths the steps of the most recent handshake are, in  *)
(* this order and with nothing in between, the magic pattern,              *)
(* Init-Vector-1, wait_and_poll, Init-Vector-2, wait_and_poll and the one  *)
(* Init-Vector-3 of the voltage flag (5V iff is_5v); a wait_and_poll that  *)
(* times out is the last step of its handshake, which raises SyncTimeout   *)
(* and does not reach Ready; Ready is reached exactly when all six steps   *)
(* have run.                                                               *)
C8_HandshakeOrder ==
    /\ IsPrefix(hsTrace, HandshakeOrder) \/ StoppedAtWait(hsTrace)
    /\ ready <=> hsTrace = HandshakeOrder
    /\ \A f \in Handshakes :
        /\ Returned(f) => ready
        /\ Raised(f, "SyncTimeout") =>
              /\ ~ready
              /\ hsTrace = <<>> \/ StoppedAtWait(hsTrace)
        /\ call = f =>
              /\ ~ready
              /\ IsPrefix(hsTrace, HandshakeOrder)
              /\ pc = "init_2" => Len(hsTrace) = 3
              /\ pc = "init_3" => Len(hsTrace) = 5

(* power_cycle_init() has run to its end with the 3.3V flag *)
C8_Witness ==
    /\ Returned("power_cycle_init")
    /\ ~is_5v
    /\ ready
    /\ hsTrace = <<"magic", "init_1", "wait_and_poll", "init_2", "wait_and_poll",
                   "init_3_3v">>

(***************************************************************************)
(* C9.  Flash operations and Ready.                                        *)
(***************************************************************************)
(* C9: none of read_id_word, bulk_erase, set_bank_num, set_block_num,      *)
(* program_block, verify_setup, erase_block, program, verify and patch     *)
(* clocks a bit to the target unless the most recent handshake has run to  *)
(* the end of Init-Vector-3 without a fault.                               *)
C9_OpsRequireReady == ~unreadyOps

(***************************************************************************)
(* C10.  wait_and_poll() that sees the data line rise and fall.            *)
(***************************************************************************)
(* what the main flow does, in order, when it returns *)
WaitAndPollOrder == <<"in", "timer", "rise", "fall", "low", "out", "clock">>

(* C10: when wait_and_poll() has seen the data line rise and fall, it has  *)
(* switched data to input before it measured, and after the falling edge   *)
(* it has driven data low, switched data to output and issued exactly 40   *)
(* trailing clock pulses, in that order; on return data is an output and   *)
(* the clock is low.                                                       *)
C10_WaitAndPollSuccess ==
    wpc = "returned" =>
        /\ wlog = WaitAndPollOrder
        /\ mainPulses = TRAILING_CLOCKS
        /\ trailPulses = TRAILING_CLOCKS
        /\ sdata_mode = "OUT"
        /\ sdata_out = 0
        /\ sclk = 0

(* The same when both timer callbacks ran before data became an output    *)
(* again: the case in which the timer does not race the trailing pulses.  *)
C10_WithoutRace ==
    wpc = "returned" /\ timer_cb = "none" /\ ~lateCb => C10_WaitAndPollSuccess

(* wait_and_poll() has returned and no callback raced the trailing pulses *)
C10_WithoutRaceWitness ==
    wpc = "returned" /\ timer_cb = "none" /\ ~lateCb

(***************************************************************************)
(* C11.  wait_and_poll() that times out.                                   *)
(***************************************************************************)
WaitAndPollEnded == wpc \in {"returned", "raised_rise", "raised_fall"}

(* C11: wait_and_poll() on a data line that never rises ends in the        *)
(* RuntimeError of the rising edge, and on a line that rises and never     *)
(* falls in that of the rising or the falling edge, never in a return; it  *)
(* raises only when the timeout has passed since it started to wait for    *)
(* that edge, having seen no rising edge (resp. the rising edge and no     *)
(* falling edge); when it has raised, _drive_clock() has issued no pulse   *)
(* and data is still an input.                                             *)
C11_WaitAndPollTimeout ==
    /\ WaitAndPollEnded /\ tstate = "idle" => wpc = "raised_rise"
    /\ WaitAndPollEnded /\ tstate = "busy" => wpc \in {"raised_rise", "raised_fall"}
    /\ wpc = "raised_rise" =>
          /\ waited >= TimeoutTicks
          /\ wlog = <<"in", "timer">>
    /\ wpc = "raised_fall" =>
          /\ waited >= TimeoutTicks
          /\ wlog = <<"in", "timer", "rise">>
    /\ wpc \in {"raised_rise", "raised_fall"} =>
          /\ mainPulses = 0
          /\ trailPulses = 0
          /\ cycles = 0
          /\ sdata_mode = "IN"

(* the line rose and never fell: the timeout of the falling edge *)
C11_Witness ==
    /\ wpc = "raised_fall"
    /\ tstate = "busy"
    /\ waited >= TimeoutTicks
    /\ sdata_mode = "IN"

(***************************************************************************)
(* C12, C13, C14, C18.  _write_vector().                                   *)
(***************************************************************************)
(* the bytes a dispatched call stands for *)
Size(d) == IF d.fn = "write_noop" THEN 1 ELSE 3

(* the index behind the k-th dispatched call *)
EndOf(k) == IF k = 0 THEN 0 ELSE dispatched[k].at + Size(dispatched[k])

(* C12: _write_vector() walks the bytes from index 0; the calls it makes   *)
(* lie one behind the other; a zero byte where a command starts is one     *)
(* write_noop() and 1 byte, any other byte b there is one operation with   *)
(* opcode b, the next byte as address and the one after as value, and 3    *)
(* bytes; the index is behind the last call and never behind the buffer,   *)
(* and _write_vector() returns exactly when it is the buffer's length.     *)
C12_VectorWalk ==
    /\ \A k \in 1..Len(dispatched) :
        LET d == dispatched[k] IN
        /\ d.at = EndOf(k - 1)
        /\ d.at < Len(ops)
        /\ ops[d.at + 1] = 0 <=> d.fn = "write_noop"
        /\ ops[d.at + 1] # 0 =>
              /\ d.at + 3 <= Len(ops)
              /\ d.issp_op = ops[d.at + 1]
              /\ d.address = ops[d.at + 2]
              /\ d.value = ops[d.at + 3]
    /\ vec_i = EndOf(Len(dispatched))
    /\ vec_i <= Len(ops)
    /\ vpc = "returned" => vec_i = Len(ops)
    /\ vpc = "idle" => dispatched = <<>>

(* a triple with a zero address and a zero value, and a command behind it *)
C12_Witness ==
    /\ vpc = "returned"
    /\ ops = <<4, 0, 0, 0>>
    /\ Len(dispatched) = 2
    /\ dispatched[1].fn = "_write_op"
    /\ dispatched[2].fn = "write_noop"

(* a non-zero byte where a command starts, with fewer than 2 bytes behind *)
Truncated == vec_i < Len(ops) /\ ops[vec_i + 1] # 0 /\ vec_i + 3 > Len(ops)

(* C13: _write_vector() fails (the AssertionError of line 441, the         *)
(* MalformedBytecode of the design) exactly at a non-zero byte at a        *)
(* command boundary with fewer than 2 bytes behind it, before it makes a   *)
(* call for it; no call it makes reads a byte behind the buffer, and it    *)
(* does not return from bytecode with such a byte at a boundary.           *)
C13_MalformedBytecode ==
    /\ vpc = "AssertionError" => Truncated
    /\ Truncated => vpc # "returned"
    /\ \A k \in 1..Len(dispatched) :
          dispatched[k].at + Size(dispatched[k]) <= Len(ops)
    /\ vpc = "AssertionError" =>
          \A k \in 1..Len(dispatched) : dispatched[k].at # vec_i

(* a whole triple, then an opcode and an address with no value *)
C13_Witness ==
    /\ vpc = "AssertionError"
    /\ Len(ops) = 4
    /\ vec_i = 3
    /\ Len(dispatched) = 1

(* C14: the calls _write_vector() makes on generate_bytes() of a vector    *)
(* are the vector's commands, one for one: write_noop() for NoOp, and for  *)
(* Op(kind, address, value) a call with that kind, address and value; the  *)
(* assert does not fail.                                                   *)
C14_RoundTrip ==
    compiled =>
        /\ vpc # "AssertionError"
        /\ Len(dispatched) <= Len(vector)
        /\ vpc = "returned" => Len(dispatched) = Len(vector)
        /\ \A k \in 1..Len(dispatched) :
            IF vector[k] = VecNoOp
            THEN dispatched[k].fn = "write_noop"
            ELSE /\ dispatched[k].fn # "write_noop"
                 /\ dispatched[k].issp_op = vector[k].kind
                 /\ dispatched[k].address = vector[k].address
                 /\ dispatched[k].value = vector[k].value

(* a read of address 5 with value 0 and a NoOp have gone round *)
C14_Witness ==
    /\ compiled
    /\ vpc = "returned"
    /\ vector = <<VecOp(5, 5, 0), VecNoOp>>
    /\ Len(dispatched) = 2

BitEvents(bits) ==
    [k \in 1..(3 * Len(bits)) |->
        CASE (k - 1) % 3 = 0 -> DataEv(bits[((k - 1) \div 3) + 1])
          [] (k - 1) % 3 = 1 -> "high"
          [] (k - 1) % 3 = 2 -> "low"]

Pulses(n) == [k \in 1..(2 * n) |-> IF k % 2 = 1 THEN "high" ELSE "low"]

BitReturned == bpc = <<"returned", "">>

WriteOpBits == Bits(issp_op, 3) \o Bits(address, 8) \o Bits(value, 8)

WriteOpEvents == BitEvents(WriteOpBits) \o <<"data1">> \o Pulses(3)

(* C15: the pin accesses of _write_op(opcode, address, value) are, bit by  *)
(* bit, data, clock high, clock low for the 3 opcode bits, the 8 address   *)
(* bits and the 8 value bits, each most significant bit first, then data   *)
(* high and 3 clock pulses; the levels of the data line at the 22 rising   *)
(* clock edges are those bits and three 1s; data is an output throughout.  *)
C15_WriteOpBits ==
    bfn = "_write_op" =>
        /\ IsPrefix(blog, WriteOpEvents)
        /\ sdata_mode = "OUT"
        /\ IsPrefix(clocked, WriteOpBits \o <<1, 1, 1>>)
        /\ BitReturned =>
              /\ blog = WriteOpEvents
              /\ clocked = WriteOpBits \o <<1, 1, 1>>
              /\ sclk = 0

(* _write_op(5, 170, 1) has returned *)
C15_Witness ==
    /\ bfn = "_write_op"
    /\ BitReturned
    /\ issp_op = 5 /\ address = 170 /\ value = 1
    /\ clocked = <<1, 0, 1, 1, 0, 1, 0, 1, 0, 1, 0, 0, 0, 0, 0, 0, 0, 0, 1, 1, 1, 1>>

IsSample(e) == e \in {"sample0", "sample1"}

(* the levels _read_op() has sampled, in order *)
Samples ==
    LET ss == SelectSeq(blog, IsSample)
    IN [k \in 1..Len(ss) |-> IF ss[k] = "sample1" THEN 1 ELSE 0]

(* the pin accesses, whatever the levels sampled *)
Masked(es) == [k \in 1..Len(es) |-> IF IsSample(es[k]) THEN "sample" ELSE es[k]]

ReadOpEvents ==
    BitEvents(Bits(issp_op, 3) \o Bits(address, 8))
    \o <<"in">> \o Pulses(2)
    \o [k \in 1..24 |-> CASE (k - 1) % 3 = 0 -> "sample"
                          [] (k - 1) % 3 = 1 -> "high"
                          [] (k - 1) % 3 = 2 -> "low"]
    \o Pulses(1) \o <<"out">>

(* the byte with the levels ls as its bits, the first one the highest *)
RECURSIVE MsbFirst(_)
MsbFirst(ls) ==
    IF ls = <<>> THEN 0
    ELSE Head(ls) * (2 ^ (Len(ls) - 1)) + MsbFirst(Tail(ls))

(* C16: the pin accesses of _read_op(opcode, address) are the 3 opcode     *)
(* bits and the 8 address bits as _write_op() shifts them, then data to    *)
(* input, 2 clock pulses, 8 times a sample of the data line and a clock    *)
(* pulse, one more pulse, and data to output; data is an input exactly     *)
(* between the two switches; the byte returned has the 8 sampled levels    *)
(* as its bits, the first sample as bit 7, whatever the target presents.   *)
C16_ReadOpBits ==
    bfn = "_read_op" =>
        /\ IsPrefix(Masked(blog), ReadOpEvents)
        /\ sdata_mode = IF Len(blog) > 33 /\ ~BitReturned THEN "IN" ELSE "OUT"
        /\ Len(Samples) <= 8
        /\ Len(Samples) > 0 => read_value = MsbFirst(Samples) * (2 ^ (8 - Len(Samples)))
        /\ BitReturned =>
              /\ Masked(blog) = ReadOpEvents
              /\ Len(Samples) = 8
              /\ read_value = MsbFirst(Samples)
              /\ sclk = 0

(* the target has presented 1, 0, 0, 0, 0, 0, 1, 1 and _read_op() has      *)
(* returned 131                                                            *)
C16_Witness ==
    /\ bfn = "_read_op"
    /\ BitReturned
    /\ Samples = <<1, 0, 0, 0, 0, 0, 1, 1>>
    /\ read_value = 131

(***************************************************************************)
(* C17.  Hex conversion of a well-formed 1-bank image.                     *)
(***************************************************************************)
(* read_hex_file() was given a well-formed file for a part of one bank *)
OneBankImage == hexfile.banks = 1 /\ hexfile.fault \in WellFormed

HexReturned == hpc = "returned"

(* C17 as the specification states it: hex conversion of a well-formed    *)
(* 1-bank image (128 sequential 64-byte program records, security record  *)
(* and matching 2-byte checksum record, every record checksum correct)    *)
(* succeeds and yields program data of total length 8192 bytes, security  *)
(* data of total length 64 bytes and checksum bytes of length 2.          *)
C17_HexLengths ==
    OneBankImage =>
        /\ hpc # "ValueError"
        /\ HexReturned =>
            /\ TotalLen(blocks) = 8192
            /\ TotalLen(security) = 64
            /\ Len(device_checksum) = 2

(* C17, amended: hex conversion of a well-formed 1-bank image succeeds    *)
(* and yields program data of total length 8192 bytes, security data of   *)
(* total length 32 bytes (the first half of the 64-byte security record)  *)
(* and checksum bytes of length 2.                                         *)
C17_HexLengthsPerBank ==
    OneBankImage =>
        /\ hpc # "ValueError"
        /\ HexReturned =>
            /\ TotalLen(blocks) = 8192
            /\ TotalLen(security) = 32
            /\ Len(device_checksum) = 2

C17_Witness == OneBankImage /\ HexReturned /\ hexfile.fault = "none"

(***************************************************************************)
(* C19.  verify(data) after a byte that differs.                           *)
(***************************************************************************)
(* the blocks of image d, through the banks *)
TotalBlocks(d) == TotalBanks(d) * BLOCK_PER_BANK

(* the block of position k, numbered through the banks *)
GlobalBlock(k) == k \div BYTE_PER_BLOCK

(* verify has ended and the flash differs from the image *)
VerifyEndedOnDiff ==
    /\ InCall("verify")
    /\ call = "none"
    /\ nfaults = 0
    /\ FirstDiff(flash, data) # -1

(* C19 as the specification states it: when verify finds a mismatching    *)
(* byte in a block, it stops comparing the remaining bytes of that block  *)
(* but continues the outer loop, so that when it has ended setBlock and   *)
(* verify-setup have been issued for every block of the image after the   *)
(* mismatching block as well.                                              *)
C19_VerifyContinues ==
    VerifyEndedOnDiff =>
        LET k == FirstDiff(flash, data) IN
        opCount >= VerifyOpsUpTo(k)
                   + 2 * (TotalBlocks(data) - 1 - GlobalBlock(k))

(* C19, amended: when verify finds a mismatching byte in a block, it      *)
(* raises: it compares no further byte of that block and does not         *)
(* continue the outer loop.  The mismatching read is the last operation,  *)
(* a '-' has been printed for the blocks before the mismatching block     *)
(* only, and setBank, setBlock and verify-setup have been issued for the  *)
(* banks and blocks up to the mismatching block and for none after it.    *)
C19_VerifyStopsAtMismatch ==
    Raised("verify", "VerifyMismatch") =>
        LET b == result.bank * BLOCK_PER_BANK + result.block IN
        /\ lastOp.op = "read_memory"
        /\ lastOp.a = BufferAddr(result.byte)
        /\ lastOp.v # DataAt(data, b * BYTE_PER_BLOCK + result.byte)
        /\ Len(out) = b
        /\ opCount = (result.bank + 1) + 2 * (b + 1) + BYTE_PER_BLOCK * b
                     + result.byte + 1

(* verify has raised at a byte of a block that is not the last block of   *)
(* the image                                                               *)
C19_Witness ==
    /\ Raised("verify", "VerifyMismatch")
    /\ result.bank * BLOCK_PER_BANK + result.block + 1 < TotalBlocks(data)

(***************************************************************************)
(* C20.  The magic bits of the two reset paths.                            *)
(***************************************************************************)
(* 1,1,0,0,1,0,1 and fifteen 0s *)
MagicPattern == <<1, 1, 0, 0, 1, 0, 1>> \o [k \in 1..15 |-> 0]

(* the places of event ev in the log of pin accesses *)
Places(ev) == {k \in 1..Len(blog) : blog[k] = ev}

(* the writes to the reset pin so far, in order *)
XresWrites == SelectSeq(blog, LAMBDA e : e \in {"xres0", "xres1"})

MagicReturned == bfn \in MagicFns /\ bpc = <<"returned", "">>

MagicRaised == bfn \in MagicFns /\ bpc[1] = "RuntimeError"

(* C20: the hard-reset path and the power-cycle path clock exactly the    *)
(* same magic pattern onto the data line: exactly 22 clock pulses whose   *)
(* data levels are 1,1,0,0,1,0,1 followed by fifteen 0s; on the hard-     *)
(* reset path no clock pulse occurs before the reset line has gone low,   *)
(* high, low, and on the power-cycle path no clock pulse occurs before    *)
(* the target's power-up data-line pulse has been detected (a timeout     *)
(* there means no magic bit is sent).                                      *)
C20_MagicPattern ==
    bfn \in MagicFns =>
        /\ IsPrefix(clocked, MagicPattern)
        /\ Cardinality(Places("high")) = Len(clocked)
        /\ MagicReturned =>
            /\ clocked = MagicPattern
            /\ Len(clocked) = 22
            /\ ClockLine = 0
        /\ (bfn = "reset_send_magic" /\ Places("high") # {}) =>
            /\ xres_mode = "OUT"
            /\ XresWrites = <<"xres0", "xres1", "xres0">>
            /\ \A h \in Places("high") : \A x \in Places("xres0") \cup Places("xres1") : x < h
        /\ (bfn = "power_cycle_send_magic" /\ Places("high") # {}) =>
            /\ \E d \in Places("detect") : \A h \in Places("high") : d < h
        /\ MagicRaised =>
            /\ bfn = "power_cycle_send_magic"
            /\ clocked = <<>>
            /\ Places("high") = {}
            /\ sdata_mode = "IN"

(* the hard-reset path has returned *)
C20_Witness == MagicReturned /\ bfn = "reset_send_magic" /\ Len(clocked) = 22

(* the power-cycle path has returned *)
C20_WitnessPowerCycle ==
    MagicReturned /\ bfn = "power_cycle_send_magic" /\ Len(clocked) = 22

(* the power-cycle path has timed out *)
C20_WitnessTimeout == MagicRaised

(***************************************************************************)
(* C22.  program(image) followed by verify(image).                         *)
(***************************************************************************)
(* C22: against a target that answers without fault, and whatever its     *)
(* flash held, when program(image) has returned the flash equals the      *)
(* image over the image's banks, and the verify(image) that follows       *)
(* raises no mismatch and returns having marked every block '-'; verify,  *)
(* with or without a fault of the target, issues no bulk-erase, no        *)
(* erase-block and no program-block, writes nothing to the block buffer   *)
(* and leaves the flash as it found it.                                   *)
C22_ProgramVerifyRoundTrip ==
    /\ (Returned("program") /\ nfaults = 0) => FirstDiff(flash, data) = -1
    /\ InCall("verify") =>
        /\ ncalls = 2
        /\ flash = flash0
        /\ eraseLog = <<>> /\ progLog = <<>>
        /\ bufWrites = 0
        /\ lastOp.op \notin {"bulk_erase", "erase_block", "program_block"}
    /\ (InCall("verify") /\ nfaults = 0) =>
        /\ FirstDiff(flash, data) = -1
        /\ ~Raised("verify", "VerifyMismatch")
        /\ call = "none" =>
            /\ Returned("verify")
            /\ Len(out) = TotalBanks(data) * BLOCK_PER_BANK

(* a target whose flash held another pattern has been programmed with a   *)
(* two-bank image, and the verify that followed has returned               *)
C22_Witness ==
    /\ Returned("verify")
    /\ ncalls = 2
    /\ nfaults = 0
    /\ TotalBanks(data) = 2 /\ data.pat = "D"
    /\ Len(out) = 2 * BLOCK_PER_BANK
    /\ \A k \in 0..(DataLen(data) - 1) : flash[k] = DataAt(data, k)

(***************************************************************************)
(* C23.  The width of a command.                                           *)
(***************************************************************************)
(* the clock pulses in the pin accesses so far: the writes of 0 to sclk *)
ClockPulses == Cardinality({k \in 1..Len(blog) : blog[k] = "low"})

(* every write of 1 to sclk is followed at once by the write of 0 *)
WholePulses ==
    \A k \in 1..Len(blog) :
        /\ blog[k] = "high" => (k = Len(blog) \/ blog[k + 1] = "low")
        /\ blog[k] = "low" => (k > 1 /\ blog[k - 1] = "high")

(* the commands the functions called so far have run or are running *)
CommandsCalled ==
    IF bfn = "none" \/ vpc # "idle" THEN Len(dispatched)
    ELSE IF bpc[1] = "idle" THEN 0 ELSE 1

(* C23: write_noop() writes 0 to data and then issues 22 clock pulses,    *)
(* _write_op() issues 3 + 8 + 8 + 3 and _read_op() 3 + 8 + 2 + 8 + 1      *)
(* clock pulses, 22 each; when a command has returned the clock line is   *)
(* low and data is an output, and n commands have issued 22 * n pulses,   *)
(* so that a _write_vector() that returns after n commands has issued     *)
(* 22 * n.                                                                 *)
C23_CommandWidth ==
    /\ WholePulses
    /\ ClockPulses <= 22 * CommandsCalled
    /\ ClockPulses >= 22 * (CommandsCalled - 1)
    /\ SerializerAtRest =>
        /\ ClockPulses = 22 * CommandsCalled
        /\ sclk = 0
        /\ sdata_mode = "OUT"
    /\ (bfn = "write_noop" /\ bpc[1] \notin {"idle", "noop"}) =>
        /\ sdata_out = 0
        /\ SubSeq(clocked, Len(clocked) - 21, Len(clocked)) = [k \in 1..22 |-> 0]
    /\ (bfn = "_write_op" /\ vpc = "idle") =>
        IsPrefix(blog, WriteOpEvents)
    /\ bfn = "_read_op" =>
        IsPrefix(Masked(blog), ReadOpEvents)

(* _write_vector() has returned from a bytecode of a no-op and a write *)
C23_Witness ==
    /\ vpc = "returned"
    /\ Len(dispatched) = 2
    /\ dispatched[1].fn = "write_noop" /\ dispatched[2].fn = "_write_op"
    /\ ClockPulses = 44
    /\ sclk = 0 /\ sdata_mode = "OUT"

(* write_noop() called on its own has returned *)
C23_WitnessNoop ==
    /\ bfn = "write_noop" /\ vpc = "idle" /\ BitReturned
    /\ blog = <<"data0">> \o Pulses(22)

(* _read_op() has returned *)
C23_WitnessRead ==
    /\ bfn = "_read_op" /\ BitReturned /\ ClockPulses = 22

(***************************************************************************)
(* C24.  The vectors of the file are well-formed bytecode.                 *)
(***************************************************************************)
EmbeddedVectors ==
    UNION {VectorsOf(f, v5) : f \in VectorCallers, v5 \in BOOLEAN}

(* C24: on every vector of the file (Init-1, Init-2, Init-3 for 3.3 V and *)
(* for 5 V, ID-setup, bulk-erase, program-block, verify-setup and         *)
(* erase-block) the assert of _write_vector() never fails: the walk finds *)
(* at each command boundary a zero byte, one write_noop(), or a whole     *)
(* triple whose first byte is 4, 5, 6 or 7, the commands lie one behind   *)
(* the other from index 0, and _write_vector() returns behind the last    *)
(* byte.                                                                   *)
C24_EmbeddedWellFormed ==
    ops \in EmbeddedVectors =>
        /\ vpc # "AssertionError"
        /\ ~Truncated
        /\ \A k \in 1..Len(dispatched) :
            LET d == dispatched[k] IN
            /\ d.at = EndOf(k - 1)
            /\ EndOf(k) <= Len(ops)
            /\ \/ d.fn = "write_noop" /\ ops[d.at + 1] = 0
               \/ /\ d.fn = "_write_op"
                  /\ d.issp_op = ops[d.at + 1]
                  /\ d.issp_op \in {4, 5, 6, 7}
                  /\ d.address = ops[d.at + 2]
                  /\ d.value = ops[d.at + 3]
        /\ vec_i = EndOf(Len(dispatched))
        /\ vpc = "returned" => vec_i = Len(ops)

(* _write_vector() has returned from Init-3 for 3.3 V: 38 commands, 4 of  *)
(* them no-ops                                                             *)
C24_Witness ==
    /\ ops = VECTOR_INIT_3_3V
    /\ ~is_5v
    /\ vpc = "returned"
    /\ Len(dispatched) = 38
    /\ Cardinality({k \in 1..38 : dispatched[k].fn = "write_noop"}) = 4

(***************************************************************************)
(* C21.  The timer of wait_and_poll().                                     *)
(***************************************************************************)
(* a step starts the timer: timer.init() of line 194 *)
TimerStarts ==
    /\ timer_cb = "none" /\ timer_cb' = "on"
    /\ wpc = "timer_init" /\ wpc' = "wait_high"
    /\ UNCHANGED sclk

(* a step is _on_callback: the clock is driven high, _off_callback is next *)
OnCallbackRuns ==
    /\ timer_cb = "on" /\ timer_cb' = "off"
    /\ sclk' = 1
    /\ UNCHANGED <<wpc, wlog, mainPulses>>

(* a step is _off_callback: the clock is driven low, the timer is stopped *)
OffCallbackRuns ==
    /\ timer_cb = "off" /\ timer_cb' = "none"
    /\ sclk' = 0
    /\ UNCHANGED <<wpc, wlog, mainPulses>>

(* a step is a pin access of _drive_clock() in the main flow *)
MainDrivesClock ==
    /\ wpc \in {"drive_high", "drive_low"} /\ wpc' # wpc
    /\ UNCHANGED timer_cb

(* how often wait_and_poll() has started the timer *)
TimerInits == Cardinality({k \in 1..Len(wlog) : wlog[k] = "timer"})

(* the steps that change the timer's callback or the clock line *)
TimerDiscipline ==
    /\ (timer_cb' # timer_cb) =>
            (TimerStarts \/ OnCallbackRuns \/ OffCallbackRuns)
    /\ (sclk' # sclk) =>
            (OnCallbackRuns \/ OffCallbackRuns \/ MainDrivesClock)

(* C21: each wait_and_poll() starts the timer once, and the timer makes    *)
(* one clock pulse: _on_callback runs once, then _off_callback runs once,  *)
(* after which the timer is stopped and no callback runs until the timer   *)
(* is started again; every other write to the clock line is made by the    *)
(* main flow, in _drive_clock().                                           *)
C21_TimerOnePulse ==
    /\ [](TimerInits <= 1 /\ (timer_cb # "none" => TimerInits = 1))
    /\ [][TimerDiscipline]_vars

(* wait_and_poll() has returned, both callbacks have run and the timer is *)
(* stopped                                                                 *)
C21_Witness ==
    /\ wpc = "returned"
    /\ TimerInits = 1
    /\ timer_cb = "none"

(***************************************************************************)
(* C25.  The timer callbacks and the trailing clock pulses.                *)
(***************************************************************************)
(* C25: in every interleaving of the timer callbacks with the main flow   *)
(* of wait_and_poll(), both callbacks have run before the main flow       *)
(* starts the 40 trailing clock pulses, whatever the moment at which the  *)
(* target raises and lowers the data line; no timer-driven clock edge     *)
(* falls inside the trailing pulses or behind them, and a wait_and_poll() *)
(* that returns has put the timer's pulse and exactly 40 whole trailing   *)
(* pulses on the clock line, 41 in all.                                    *)
C25_CallbacksBeforeTrailing ==
    /\ Trailing => timer_cb = "none"
    /\ ~lateCb
    /\ wpc = "returned" =>
        /\ trailPulses = TRAILING_CLOCKS
        /\ sclk = 0

=============================================================================
